---- MODULE Spec2Model ----
(***************************************************************************)
(* LightNVR stream recording engine: the MP4 writer registry               *)
(* (register/get/unregister/close_all over the global mp4_writers array),  *)
(* the pre-roll frame buffers it drives, the recording contexts and the    *)
(* catalog rows that shutdown touches; and the stream catalog              *)
(* (db_streams.c: add/update/delete/get/list over the streams table).      *)
(***************************************************************************)
EXTENDS Integers, Sequences, FiniteSets, Bags, TLC

(* ------------------------------ bounds --------------------------------- *)

\* Number of registry slots (the arrays mp4_writers / mp4_writer_stream_names /
\* frame_buffers / recording_contexts are all MAX_STREAMS long).
MAX_STREAMS == 2

\* Clamp of the pre-roll capacity, in frames.
MAX_PREBUFFER_FRAMES == 2

\* mp4_writer_close calls counted per writer (the counter saturates here).
MaxCloseCount == 2

\* Calls each thread of the concurrent specification makes.
MaxCalls == 2

\* Width of the C type int, in bits (two's complement).
IntBits == 3

\* Largest rowid the streams table hands out.
MaxRowId == 3

\* Sizes of the text arrays of stream_config_t (the terminating NUL included).
MAX_STREAM_NAME == 3
MAX_URL_LENGTH == 3
MAX_PATH_LENGTH == 3
CodecSize == 2

\* Double steps per float step (the extra precision of a double).
DoublePerFloat == 4

\* Entries of the request-active table (32 in the source).
MAX_ACTIVE_REQUESTS == 2

\* Tasks the API thread pool holds, queued or running (queue of 10 in the
\* source).
MaxTasks == 2

\* Largest recording id.
MaxRecordingId == 3

\* Segments written to a manifest (100 in the source).
MAX_MANIFEST_SEGMENTS == 2

\* Latest time, in seconds.
MaxTime == 2

\* Largest storage quota, in units of one segment's size.
MaxQuota == 2
MaxStored == 2
RingCapacity == 2
MaxPushes == 4
MaxFileSize == 2

(* ------------------------------ values --------------------------------- *)

\* A null mp4_writer_t pointer / a null recording context.
NULL == 0

\* A null `const char *stream_name`.
NullName == "(null)"

\* A column holding SQL NULL (no column of the model holds a negative value).
SqlNull == -1

\* The default detection_threshold 0.5f, in float steps.
DefaultThreshold == 2

\* The empty string (mp4_writer_stream_names[i][0] == '\0').
EmptyName == ""

StreamNames == {"cam1", "cam2", "cam3"}

\* mp4_writer_t instances. A writer is created for one stream and is
\* registered under that stream's name.
Writers == {1, 2, 3}

WriterStream(w) ==
    CASE w = 1 -> "cam1"
      [] w = 2 -> "cam1"
      [] OTHER -> "cam2"

\* writer->output_path: writer 3 carries an empty output path.
HasOutputPath(w) == w # 3

Slots == 0 .. (MAX_STREAMS - 1)

\* Threads of the concurrent specification.
Threads == {"t1", "t2"}

Min(S) == CHOOSE x \in S : \A y \in S : x <= y

Max(S) == CHOOSE x \in S : \A y \in S : x >= y

\* The values of an int.
IntMin == -(2 ^ (IntBits - 1))
IntMax == (2 ^ (IntBits - 1)) - 1
IntRange == IntMin .. IntMax

\* x reduced to the int that is congruent to it modulo 2^IntBits.
IntWrap(x) == ((x - IntMin) % (2 ^ IntBits)) + IntMin

\* The values a * b on two ints can leave. Signed overflow is undefined
\* behaviour: a build that multiplies in the machine's registers leaves the
\* wrapped product; a build that traps on overflow aborts the process, so
\* the call takes no step at all.
IntMul(a, b) == IF a * b \in IntRange THEN {a * b} ELSE {IntWrap(a * b)}

(* --------------------------- stream manager ---------------------------- *)

\* get_stream_by_name: cam3 has no stream handle.
StreamExists(name) == name \in {"cam1", "cam2"}

\* The stream manager's configuration of the running streams: the two
\* fields the registry reads.
DefaultConfig(name) ==
    CASE name = "cam1" -> [pre_detection_buffer |-> 1, fps |-> 2]
      [] name = "cam2" -> [pre_detection_buffer |-> 0, fps |-> 2]
      [] OTHER         -> [pre_detection_buffer |-> 0, fps |-> 0]

(* --------------------------- stream catalog ---------------------------- *)
(* db_streams.c over the streams table. Text is a sequence of character     *)
(* codes; a stream_config_t holds its text in fixed arrays, so a text field *)
(* of a config is at most one shorter than its array.                       *)

\* strncpy(dst, src, n) followed by dst[n] = '\0': the first n characters.
StrNCpy(src, n) == SubSeq(src, 1, IF Len(src) < n THEN Len(src) ELSE n)

\* b ? 1 : 0, and x != 0.
BoolToInt(b) == IF b THEN 1 ELSE 0
IntToBool(x) == x # 0

\* (double)f of a float f, and (float)d of a double d (round to nearest):
\* a float is counted in float steps, a double in the finer double steps.
FloatToDouble(f) == f * DoublePerFloat
DoubleToFloat(d) == (2 * d + DoublePerFloat) \div (2 * DoublePerFloat)

\* Stream names of the catalog calls.
CatalogNames == {<<3, 1>>, <<3, 2>>}

\* The stream_config_t values the callers pass: for each name a fully
\* switched-on config and a disabled one with every other field different.
ConfigOn(n) ==
    [name |-> n, url |-> <<7, 1>>, enabled |-> TRUE, streaming_enabled |-> TRUE,
     width |-> 2, height |-> 1, fps |-> 3, codec |-> <<4>>, priority |-> 1,
     record |-> TRUE, segment_duration |-> 6,
     detection_based_recording |-> TRUE, detection_model |-> <<5, 5>>,
     detection_threshold |-> 3, detection_interval |-> 2,
     pre_detection_buffer |-> 5, post_detection_buffer |-> 4,
     protocol |-> 1, is_onvif |-> TRUE, record_audio |-> TRUE]

ConfigOff(n) ==
    [name |-> n, url |-> <<7, 2>>, enabled |-> FALSE, streaming_enabled |-> FALSE,
     width |-> 4, height |-> 3, fps |-> 1, codec |-> <<5>>, priority |-> 2,
     record |-> FALSE, segment_duration |-> 7,
     detection_based_recording |-> FALSE, detection_model |-> <<>>,
     detection_threshold |-> 1, detection_interval |-> 1,
     pre_detection_buffer |-> 0, post_detection_buffer |-> 3,
     protocol |-> 0, is_onvif |-> FALSE, record_audio |-> FALSE]

Configs == UNION {{ConfigOn(n), ConfigOff(n)} : n \in CatalogNames}

\* No config (a null pointer, or an output parameter left untouched).
NoConfig == [name |-> <<>>]

\* The values bound to the statement parameters of the INSERT / UPDATE
\* statements, by column.
BindColumns(stream) ==
    [url |-> stream.url,
     enabled |-> BoolToInt(stream.enabled),
     streaming_enabled |-> BoolToInt(stream.streaming_enabled),
     width |-> stream.width, height |-> stream.height, fps |-> stream.fps,
     codec |-> stream.codec, priority |-> stream.priority,
     record |-> BoolToInt(stream.record),
     segment_duration |-> stream.segment_duration,
     detection_based_recording |-> BoolToInt(stream.detection_based_recording),
     detection_model |-> stream.detection_model,
     detection_threshold |-> FloatToDouble(stream.detection_threshold),
     detection_interval |-> stream.detection_interval,
     pre_detection_buffer |-> stream.pre_detection_buffer,
     post_detection_buffer |-> stream.post_detection_buffer,
     protocol |-> stream.protocol,
     is_onvif |-> BoolToInt(stream.is_onvif),
     record_audio |-> BoolToInt(stream.record_audio)]

\* A row of the streams table: id, name and the bound columns.
MakeRow(id, name, cols) == [id |-> id, name |-> name, cols |-> cols]

\* The schema: streams(id INTEGER PRIMARY KEY, name UNIQUE, ...). A write
\* that would leave two rows with one name fails with a constraint error.
NameUnique(rows) ==
    \A r1 \in rows, r2 \in rows : r1.name = r2.name => r1 = r2

\* The rowid an INSERT assigns: one more than the largest in the table.
NextRowId(rows) == IF rows = {} THEN 1 ELSE Max({r.id : r \in rows}) + 1

\* The schema-column cache: the columns added by the migrations exist.
cached_column_exists(column) == TRUE

\* The rows named name (SELECT ... WHERE name = ?).
RowsNamed(rows, name) == {r \in rows : r.name = name}

\* Lexicographic order on text (ORDER BY name).
RECURSIVE TextLess(_, _)
TextLess(a, b) ==
    IF Len(b) = 0 THEN FALSE
    ELSE IF Len(a) = 0 THEN TRUE
    ELSE IF Head(a) # Head(b) THEN Head(a) < Head(b)
    ELSE TextLess(Tail(a), Tail(b))

\* The rows in the order the list query returns them.
RECURSIVE OrderByName(_)
OrderByName(rows) ==
    IF rows = {} THEN <<>>
    ELSE LET first == CHOOSE r \in rows :
                          \A o \in rows : o = r \/ ~TextLess(o.name, r.name)
         IN  <<first>> \o OrderByName(rows \ {first})

\* A column value, or the default the reader set before parsing when the
\* column is SQL NULL.
ColumnOr(v, default) == IF v = SqlNull THEN default ELSE v

\* The parsing of one result row into a stream_config_t (the same code in
\* get_stream_config_by_name and get_all_stream_configs): memset to zero,
\* defaults for the detection settings, then column by column.
ParseRow(r) ==
    LET c     == r.cols
        det   == cached_column_exists("detection_based_recording")
        proto == det /\ cached_column_exists("protocol")
        onvif == det /\ cached_column_exists("is_onvif")
        audio == det /\ cached_column_exists("record_audio")
    IN  [name |-> StrNCpy(r.name, MAX_STREAM_NAME - 1),
         url |-> StrNCpy(c.url, MAX_URL_LENGTH - 1),
         enabled |-> IntToBool(c.enabled),
         streaming_enabled |-> IntToBool(c.streaming_enabled),
         width |-> c.width, height |-> c.height, fps |-> c.fps,
         codec |-> StrNCpy(c.codec, CodecSize - 1),
         priority |-> c.priority,
         record |-> IntToBool(c.record),
         segment_duration |-> c.segment_duration,
         detection_based_recording |->
             IF det THEN IntToBool(c.detection_based_recording) ELSE FALSE,
         detection_model |->
             IF det THEN StrNCpy(c.detection_model, MAX_PATH_LENGTH - 1) ELSE <<>>,
         detection_threshold |->
             IF det /\ c.detection_threshold # SqlNull
             THEN DoubleToFloat(c.detection_threshold) ELSE DefaultThreshold,
         detection_interval |->
             IF det THEN ColumnOr(c.detection_interval, 10) ELSE 10,
         pre_detection_buffer |->
             IF det THEN ColumnOr(c.pre_detection_buffer, 0) ELSE 0,
         post_detection_buffer |->
             IF det THEN ColumnOr(c.post_detection_buffer, 3) ELSE 3,
         protocol |-> IF proto THEN ColumnOr(c.protocol, 0) ELSE 0,
         is_onvif |->
             IF onvif /\ c.is_onvif # SqlNull THEN IntToBool(c.is_onvif) ELSE FALSE,
         record_audio |->
             IF audio /\ c.record_audio # SqlNull THEN IntToBool(c.record_audio)
             ELSE FALSE]

\* The record of a catalog call: the function, its name argument, the
\* config passed, whether a fault was injected, the value returned, the
\* existing_id add_stream_config found (0 when it found none), the number of
\* rows a delete statement changed, the config written to the output
\* parameter and the list written to the array.
DbCall(op, name, stream, io, ret) ==
    [op |-> op, name |-> name, stream |-> stream, fault |-> io # "ok",
     ret |-> ret, existing |-> 0, changed |-> 0, out |-> NoConfig,
     list |-> <<>>]

NoDbCall == DbCall("none", <<>>, NoConfig, "ok", 0)

NoUpsert == [n \in CatalogNames |-> NoConfig]

(* ------------------------------- state --------------------------------- *)

VARIABLES
    mp4_writers,              \* [Slots -> Writers \cup {NULL}]
    mp4_writer_stream_names,  \* [Slots -> StreamNames \cup {EmptyName}]
    frame_buffers,            \* [Slots -> frame buffer record]
    recording_contexts,       \* [Slots -> NoContext or [alloc, name, mp4_writer]]
    closed,                   \* [Writers -> number of mp4_writer_close calls]
    recordings,               \* catalog rows, one per writer's output path
    last,                     \* the registry call the latest step made (op is
                              \* "none" when it made none): arguments, result,
                              \* the old writer it closed, the frames it
                              \* flushed and the events it added
    pc,                       \* [Threads -> position of the thread]
    local,                    \* [Threads -> the thread's local variables]
    config,                   \* [StreamNames -> the stream's configuration]
    streams,                  \* the rows of the streams table
    db_call,                  \* the catalog call the latest step made
    upserted,                 \* [name -> the config of the latest
                              \*  add_stream_config call for the name that
                              \*  met no I/O failure]
    db_mutex,                 \* the thread that holds the database mutex
    db_pc,                    \* [Threads -> position inside a catalog call]
    db_local,                 \* [Threads -> the catalog call's locals]
    g_active_requests,        \* [entry -> [id, active]]
    play_local,               \* [Threads -> position and id of the thread's
                              \*  mg_handle_play_recording call]
    play_tasks,               \* the bag of playback tasks [pc, id] the
                              \*  thread pool holds
    play_call,                \* the HTTP request or task the latest step
                              \* handled: reply status, file served
    aborted,                  \* the process was aborted
    hm_frees,                 \* how many times the latest step freed the
                              \* copy of the HTTP message it handled
    segments,                 \* the rows of the recordings table
    files,                    \* [path -> the file at the path]
    manifest,                 \* the latest create_timeline_manifest call:
                              \* its arguments, its result and the manifest
                              \* file it wrote
    tl_req,                   \* the mg_handle_timeline_manifest requests
                              \* in progress: the position and the manifest
                              \* path of each, the owner of manifest_mutex,
                              \* the manifest files of the temp directory
    tl_play,                  \* the latest mg_handle_timeline_playback
                              \* call: its inputs and its reply
    now,                      \* the clock, in days
    policy,                   \* the retention policy: retention_days, quota
    cleaner,                  \* the Retention Cleaner: its position in the
                              \* pass and what it holds
    ring,                     \* a stream's ring buffer: frames, head, count
    pushed,                   \* the frames pushed since the latest drain
    ring_out,                 \* the latest drain_keyframe_aligned call: its
                              \* result
    writer,                   \* the segment writer of the capture worker:
                              \* its position and its segment
    next_id,                  \* the next segment id of the table
    worker                    \* a stream's Capture Worker: its state, its
                              \* backoff, the age of its open segment and
                              \* the event of the latest step

vars == <<mp4_writers, mp4_writer_stream_names, frame_buffers,
          recording_contexts, closed, recordings, last, pc, local,
          config, streams, db_call, upserted,
          db_mutex, db_pc, db_local,
          g_active_requests, play_local, play_tasks, play_call, aborted,
          hm_frees,
          segments, files, manifest, tl_req, tl_play, now, policy, cleaner,
          ring, pushed, ring_out, writer, next_id, worker>>

catalogVars == <<streams, db_call, upserted>>

lockVars == <<db_mutex, db_pc, db_local>>

\* The variables of the components around the registry and the catalog.
playVars == <<g_active_requests, play_local, play_tasks, play_call, aborted,
              hm_frees>>

storeVars == <<segments, files>>

retentionVars == <<now, policy, cleaner>>

ringVars == <<ring, pushed, ring_out>>

recorderVars == <<writer, next_id>>

captureVars == <<ringVars, recorderVars, worker>>

timelineVars == <<manifest, tl_req, tl_play>>

otherVars == <<lockVars, playVars, storeVars, timelineVars, retentionVars,
               captureVars>>

engineVars == <<mp4_writers, mp4_writer_stream_names, frame_buffers,
                recording_contexts, closed, recordings, last, pc, local,
                config>>

\* get_stream_config(stream, &config).
StreamConfig(name) == config[name]

registryVars == <<mp4_writers, mp4_writer_stream_names>>
threadVars   == <<pc, local>>

NoBuffer == [frames |-> FALSE, stream |-> EmptyName, capacity |-> 0, q |-> <<>>]

\* recording_contexts[j] == NULL is the record with alloc = FALSE.
NoContext == [alloc |-> FALSE, name |-> EmptyName, mp4_writer |-> NULL]

\* A thread's locals: the call it is in or has completed (op, name, writer),
\* the slot and old writer register holds between its steps, the arrays
\* close_all copied (writers_to_close / stream_names_to_close), the value
\* returned, and the number of calls the thread has completed.
NoLocal == [op |-> "none", name |-> EmptyName, writer |-> NULL, slot |-> -1,
            old |-> NULL,
            writers_to_close |-> [i \in Slots |-> NULL],
            stream_names_to_close |-> [i \in Slots |-> EmptyName],
            ret |-> 0, calls |-> 0]

\* The record of a call that closed, flushed and logged nothing.
Call(op, name, w, ret) ==
    [op |-> op, name |-> name, writer |-> w, ret |-> ret, old |-> NULL,
     flushed |-> 0, events |-> 0]

NoCall == Call("none", EmptyName, NULL, 0)

\* The database mutex when no thread holds it.
NoOwner == "none"

\* The locals of a catalog call: the function and its arguments, the fault
\* it will meet, and existing_id as the first query of add_stream_config
\* left it (0 when it found no disabled row).
DbLocal(op, name, stream, io, existing) ==
    [op |-> op, name |-> name, stream |-> stream, io |-> io,
     existing |-> existing]

NoDbLocal == DbLocal("none", <<>>, NoConfig, "ok", 0)

\* Recording ids a request can name; 0 is what strtoull returns for text
\* that is no number.
RecordingIds == 1 .. MaxRecordingId

ActiveEntries == 1 .. MAX_ACTIVE_REQUESTS

\* A zeroed entry of g_active_requests.
NoRequest == [id |-> 0, active |-> FALSE]

NoPlayLocal == [pc |-> "idle", id |-> 0]
\* A playback task of the pool: queued or running before its
\* mark_request_inactive, or released (after it).
Task(at, id) == [pc |-> at, id |-> id]

\* The record of a step of the playback handler or task: the reply sent
\* (status 0: none) and whether mg_http_serve_file was called.
PlayCall(op, id, status, served) ==
    [op |-> op, id |-> id, status |-> status, served |-> served]

NoPlayCall == PlayCall("none", 0, 0, FALSE)

\* Paths of segment files: the file of recording id is at path id.
Paths == RecordingIds

NoFile == [kind |-> "none", size |-> 0]

Times == 0 .. MaxTime

\* The Retention Cleaner between passes. held is the recording whose file a
\* step has unlinked and whose row is still to be deleted (0: none),
\* skipped the recordings whose unlink failed in this pass, before the
\* table and the directory as the pass found them, done and failed how the
\* latest pass ended, prev how the pass before it ended.
NoCleaner ==
    [pc |-> "idle", held |-> 0, admin |-> 0, skipped |-> {}, failed |-> FALSE,
     done |-> FALSE, prev |-> "none", before |-> <<>>]

\* A timeline_segment_t of the one stream a request names: id, start_time
\* and end_time.
\* A frame record: presentation timestamp and keyframe flag.
Frame(ts, key) == [ts |-> ts, key |-> key]

Frames == {Frame(ts, key) : ts \in Times, key \in BOOLEAN}

NoFrame == Frame(0, FALSE)

RingIndex == 0 .. (RingCapacity - 1)

\* An empty ring.
NoRing == [buf |-> [i \in RingIndex |-> NoFrame], head |-> 0, count |-> 0]

\* No drain made yet.
NoDrain == [pc |-> "none", frames |-> <<>>, of |-> <<>>]

\* The segment writer with no segment.
NoWriter == [pc |-> "idle", path |-> 0, start |-> 0, finalized |-> FALSE]

TimelineSegment(id, start, end) ==
    [id |-> id, start_time |-> start, end_time |-> end]

\* The record of a create_timeline_manifest call: its arguments and the
\* fault it meets, whether it has returned, the value returned, and of the
\* file written the EXT-X-TARGETDURATION value and the EXTINF entries in
\* file order, each with its duration and the start its URI names.
ManifestCall(at, segs, start_time, io, ret, target, entries) ==
    [pc |-> at, segments |-> segs, start_time |-> start_time, io |-> io,
     ret |-> ret, target_duration |-> target, entries |-> entries]

\* No call made, no manifest written.
NoManifestCall == ManifestCall("none", <<>>, 0, "ok", -1, 0, <<>>)

\* The rows get_timeline_segments returns at most (1000 in the source).
MAX_TIMELINE_SEGMENTS == 2

\* The largest segment_duration of a stream, in ticks of the worker's clock.
MaxSegmentDuration == 2

\* The first backoff interval and the cap of the interval, in ticks (the
\* specification's example: 1s and 30s).
BackoffInitial == 1

BackoffCap == 4

\* A Capture Worker that is idle: no segment open, no backoff pending.
NoWorker ==
    [state |-> "Idle", segment_duration |-> 1, backoff |-> BackoffInitial,
     remaining |-> 0, armed |-> FALSE, elapsed |-> 0, span |-> 0,
     event |-> "none"]

\* The start_time values of the manifest requests.
ManifestStarts == {0, 1}

\* "%s/manifest_%ld_%s_%ld.m3u8" of the temp directory, time(NULL), the
\* stream name of the first segment and start_time: the requests are for one
\* stream, so the second and the start make the path.
ManifestFilename(second, start_time) == <<second, start_time>>

ManifestPaths == {ManifestFilename(s, st) : s \in Times, st \in ManifestStarts}

NoManifestPath == <<>>

\* No request in progress, manifest_mutex free, no manifest file. A manifest
\* file is "open" between the fopen(.., "w") that truncates it and its
\* fclose, and "written" from then on.
NoManifestRequests ==
    [pc |-> [t \in Threads |-> "idle"],
     path |-> [t \in Threads |-> NoManifestPath],
     status |-> [t \in Threads |-> 0],
     mutex |-> NoOwner,
     file |-> [p \in ManifestPaths |-> "absent"]]

\* The record of a mg_handle_timeline_playback call: the segments
\* get_timeline_segments returns, the requested start, the fault met,
\* whether the call has returned, the status of the reply, the index chosen
\* and the recording id of the Location header.
TimelinePlay(at, segs, start_time, io, status, index, id) ==
    [pc |-> at, segments |-> segs, start_time |-> start_time, io |-> io,
     status |-> status, index |-> index, recording_id |-> id]

NoTimelinePlay == TimelinePlay("none", <<>>, 0, "ok", 0, -1, 0)

\* The state after start-up, the stream configurations aside.
InitState ==
    /\ mp4_writers = [i \in Slots |-> NULL]
    /\ mp4_writer_stream_names = [i \in Slots |-> EmptyName]
    /\ frame_buffers = [i \in Slots |-> NoBuffer]
    /\ recording_contexts = [i \in Slots |-> NoContext]
    /\ closed = [w \in Writers |-> 0]
    /\ recordings = [w \in Writers |-> [is_complete |-> FALSE, end_time |-> NULL]]
    /\ last = NoCall
    /\ pc = [t \in Threads |-> "idle"]
    /\ local = [t \in Threads |-> NoLocal]
    /\ streams = {}
    /\ db_call = NoDbCall
    /\ upserted = NoUpsert
    /\ db_mutex = NoOwner
    /\ db_pc = [t \in Threads |-> "idle"]
    /\ db_local = [t \in Threads |-> NoDbLocal]
    /\ g_active_requests = [i \in ActiveEntries |-> NoRequest]
    /\ play_local = [t \in Threads |-> NoPlayLocal]
    /\ play_tasks = EmptyBag
    /\ play_call = NoPlayCall
    /\ aborted = FALSE
    /\ hm_frees = 0
    /\ ring = NoRing
    /\ pushed = <<>>
    /\ ring_out = NoDrain
    /\ writer = NoWriter
    /\ next_id = 1
    /\ tl_req = NoManifestRequests
    /\ worker = NoWorker

\* No recording made yet.
InitStore ==
    /\ segments = {}
    /\ files = [p \in Paths |-> NoFile]
    /\ manifest = NoManifestCall
    /\ tl_play = NoTimelinePlay
    /\ now = 0
    /\ policy = [retention_days |-> 0, quota |-> 0]
    /\ cleaner = NoCleaner

Init ==
    /\ InitState
    /\ InitStore
    /\ config = [n \in StreamNames |-> DefaultConfig(n)]

\* Start-up with any configuration of cam1 an int pair can hold.
InitCapacity ==
    /\ InitState
    /\ InitStore
    /\ \E pre \in IntRange, fps \in IntRange :
           config = [n \in StreamNames |->
                        IF n = "cam1"
                        THEN [pre_detection_buffer |-> pre, fps |-> fps]
                        ELSE DefaultConfig(n)]

(* ----------------------------- mp4 writer ------------------------------ *)

\* mp4_writer_close(w): one more close of writer w.
mp4_writer_close(cl, w) ==
    [cl EXCEPT ![w] = IF cl[w] < MaxCloseCount THEN cl[w] + 1 ELSE cl[w]]

(* ----------------------------- frame buffers --------------------------- *)

\* The first buffer whose index carries the stream's name in
\* mp4_writer_stream_names (the lookup of register / unregister), or -1.
FindFrameBuffer(fb, ns, name) ==
    LET hits == {j \in Slots : fb[j].frames /\ ns[j] # EmptyName /\ ns[j] = name}
    IN  IF hits = {} THEN -1 ELSE Min(hits)

\* The values `int capacity = config.pre_detection_buffer * config.fps` can
\* take when the stream exists and pre-buffering is on, else 0 (no buffer
\* work is done).
PreBufferCapacity(name) ==
    IF StreamExists(name) /\ StreamConfig(name).pre_detection_buffer > 0
    THEN IntMul(StreamConfig(name).pre_detection_buffer, StreamConfig(name).fps)
    ELSE {0}

\* capacity < MAX_PREBUFFER_FRAMES ? capacity : MAX_PREBUFFER_FRAMES
ClampCapacity(c) == IF c < MAX_PREBUFFER_FRAMES THEN c ELSE MAX_PREBUFFER_FRAMES

\* init_frame_buffer(name, capacity): takes the first free buffer; the
\* buffers are left as they are when none is free.
init_frame_buffer(fb, name, capacity) ==
    LET free == {j \in Slots : ~fb[j].frames}
    IN  IF free = {} THEN fb
        ELSE [fb EXCEPT ![Min(free)] =
                 [frames |-> TRUE, stream |-> name, capacity |-> capacity,
                  q |-> <<>>]]

\* Frames flush_frame_buffer(idx, writer) hands to the writer: the buffered
\* frames when the first one is a keyframe, else none.
FlushCount(fb, idx) ==
    IF Len(fb[idx].q) > 0 /\ Head(fb[idx].q) THEN Len(fb[idx].q) ELSE 0

flush_frame_buffer(fb, idx) ==
    IF FlushCount(fb, idx) > 0 THEN [fb EXCEPT ![idx].q = <<>>] ELSE fb

free_frame_buffer(fb, idx) == [fb EXCEPT ![idx] = NoBuffer]

\* The capture worker adds one frame (keyframe or not) to an allocated
\* buffer; the oldest frame is dropped when the buffer is full.
PushFrame(j, key) ==
    /\ frame_buffers[j].frames
    /\ frame_buffers[j].capacity > 0
    /\ LET q == frame_buffers[j].q
           kept == IF Len(q) >= frame_buffers[j].capacity THEN Tail(q) ELSE q
       IN  frame_buffers' = [frame_buffers EXCEPT ![j].q = Append(kept, key)]
    /\ last' = NoCall
    /\ UNCHANGED <<registryVars, recording_contexts, closed, recordings,
                   threadVars, config, catalogVars, otherVars>>

(* ------------------------------ registry ------------------------------- *)

\* The loop of register_mp4_writer_for_stream: the first slot that is empty
\* or already carries the stream's name decides.
RegisterScan(ws, ns, name) ==
    LET hits == {i \in Slots : ws[i] = NULL \/ (ns[i] # EmptyName /\ ns[i] = name)}
    IN  IF hits = {} THEN [kind |-> "full", idx |-> -1]
        ELSE IF ws[Min(hits)] = NULL THEN [kind |-> "empty", idx |-> Min(hits)]
        ELSE [kind |-> "replace", idx |-> Min(hits)]

\* The loop shared by get_mp4_writer_for_stream and
\* unregister_mp4_writer_for_stream: first slot holding a writer under the name.
FindWriterSlot(ws, ns, name) ==
    LET hits == {i \in Slots : ws[i] # NULL /\ ns[i] # EmptyName /\ ns[i] = name}
    IN  IF hits = {} THEN -1 ELSE Min(hits)

GetWriter(ws, ns, name) ==
    IF name = NullName \/ name = EmptyName THEN NULL
    ELSE IF FindWriterSlot(ws, ns, name) < 0 THEN NULL
    ELSE ws[FindWriterSlot(ws, ns, name)]

get_mp4_writer_for_stream(name) ==
    GetWriter(mp4_writers, mp4_writer_stream_names, name)

\* (mutant) the replacement path that stores the new writer and forgets to
\* close the old one.
RegisterReplaceLeaksOld(idx, name, w) ==
    /\ mp4_writers' = [mp4_writers EXCEPT ![idx] = w]
    /\ mp4_writer_stream_names' = mp4_writer_stream_names
    /\ frame_buffers' = frame_buffers
    /\ closed' = closed
    /\ last' = Call("register", name, w, 0)

\* Replacement path of register: the slot takes the new writer, the buffer
\* found for the stream is flushed into it, the old writer is closed.
RegisterReplace(idx, name, w) ==
    \E capacity \in PreBufferCapacity(name) :
    LET old  == mp4_writers[idx]
        bidx == IF capacity > 0
                THEN FindFrameBuffer(frame_buffers, mp4_writer_stream_names, name)
                ELSE -1
    IN  /\ mp4_writers' = [mp4_writers EXCEPT ![idx] = w]
        /\ mp4_writer_stream_names' = mp4_writer_stream_names
        /\ frame_buffers' = IF bidx >= 0 THEN flush_frame_buffer(frame_buffers, bidx)
                            ELSE frame_buffers
        /\ closed' = IF old # NULL THEN mp4_writer_close(closed, old) ELSE closed
        /\ last' = [Call("register", name, w, 0) EXCEPT
                        !.old = old,
                        !.flushed = IF bidx >= 0 THEN FlushCount(frame_buffers, bidx)
                                    ELSE 0]

\* First-registration path of register: the empty slot takes writer and
\* name, and the stream's pre-roll buffer is initialised.
RegisterNew(idx, name, w) ==
    /\ mp4_writers' = [mp4_writers EXCEPT ![idx] = w]
    /\ mp4_writer_stream_names' = [mp4_writer_stream_names EXCEPT ![idx] = name]
    /\ \E capacity \in PreBufferCapacity(name) :
           frame_buffers' = IF capacity > 0
                            THEN init_frame_buffer(frame_buffers, name,
                                                   ClampCapacity(capacity))
                            ELSE frame_buffers
    /\ closed' = closed
    /\ last' = Call("register", name, w, 0)

register_mp4_writer_for_stream(name, w) ==
    /\ IF name = NullName \/ w = NULL
       THEN /\ last' = Call("register", name, w, -1)
            /\ UNCHANGED <<registryVars, frame_buffers, closed>>
       ELSE LET r == RegisterScan(mp4_writers, mp4_writer_stream_names, name)
            IN  CASE r.kind = "replace" -> RegisterReplace(r.idx, name, w)
                  [] r.kind = "empty"   -> RegisterNew(r.idx, name, w)
                  [] OTHER ->
                       /\ last' = Call("register", name, w, -1)
                       /\ UNCHANGED <<registryVars, frame_buffers, closed>>
    /\ UNCHANGED <<recording_contexts, recordings, threadVars, config, catalogVars, otherVars>>

\* The calls the recording threads make: a live writer under its own
\* stream's name, or a null argument.
RegisterCalls ==
    {<<WriterStream(w), w>> : w \in {x \in Writers : closed[x] = 0}}
        \cup {<<NullName, 1>>, <<"cam1", NULL>>}

Register ==
    \E c \in RegisterCalls : register_mp4_writer_for_stream(c[1], c[2])

\* Every call the signature admits for a live writer: under its stream's
\* name, under the empty string, or with a null argument.
RegisterAnyName ==
    \E c \in RegisterCalls
               \cup {<<EmptyName, w>> : w \in {x \in Writers : closed[x] = 0}} :
        register_mp4_writer_for_stream(c[1], c[2])

unregister_mp4_writer_for_stream(name) ==
    /\ IF name = NullName \/ name = EmptyName
       THEN UNCHANGED <<registryVars, frame_buffers>>
       ELSE LET idx == FindWriterSlot(mp4_writers, mp4_writer_stream_names, name)
            IN  IF idx >= 0
                THEN LET ns2  == [mp4_writer_stream_names EXCEPT ![idx] = EmptyName]
                         bidx == FindFrameBuffer(frame_buffers, ns2, name)
                     IN  /\ mp4_writers' = [mp4_writers EXCEPT ![idx] = NULL]
                         /\ mp4_writer_stream_names' = ns2
                         /\ frame_buffers' = IF bidx >= 0
                                             THEN free_frame_buffer(frame_buffers, bidx)
                                             ELSE frame_buffers
                ELSE UNCHANGED <<registryVars, frame_buffers>>
    /\ last' = Call("unregister", name, NULL, 0)
    /\ UNCHANGED <<recording_contexts, closed, recordings, threadVars, config, catalogVars, otherVars>>

Unregister ==
    \E n \in StreamNames \cup {NullName} : unregister_mp4_writer_for_stream(n)

\* Slots close_all_mp4_writers collects: a writer under a non-empty name.
SlotsToClose(ws, ns) == {i \in Slots : ws[i] # NULL /\ ns[i] # EmptyName}

\* The closing loop of close_all_mp4_writers over the collected slots, in
\* slot order: one mp4_writer_close per collected entry.
RECURSIVE CloseCollected(_, _, _)
CloseCollected(cl, ws, todo) ==
    IF todo = {} THEN cl
    ELSE CloseCollected(mp4_writer_close(cl, ws[Min(todo)]), ws, todo \ {Min(todo)})

\* (mutant) the closing loop without the pass over the recording contexts.
ClearContextsSkipped(ctx, ws, ns, todo) == ctx

\* The recording contexts after the closing loop: a context of the stream
\* being closed that references the writer being closed loses the reference.
ClearContexts(ctx, ws, ns, todo) ==
    [j \in Slots |->
        IF ctx[j].alloc
           /\ \E i \in todo : ctx[j].name = ns[i] /\ ctx[j].mp4_writer = ws[i]
        THEN [ctx[j] EXCEPT !.mp4_writer = NULL]
        ELSE ctx[j]]

\* add_event(EVENT_RECORDING_STOP, ...) once per collected writer that has a
\* non-empty output path.
StopEvents(ws, todo) == Cardinality({i \in todo : HasOutputPath(ws[i])})

close_all_mp4_writers ==
    LET todo == SlotsToClose(mp4_writers, mp4_writer_stream_names)
    IN  /\ mp4_writers' = [i \in Slots |-> IF i \in todo THEN NULL ELSE mp4_writers[i]]
        /\ mp4_writer_stream_names' =
               [i \in Slots |-> IF i \in todo THEN EmptyName
                                ELSE mp4_writer_stream_names[i]]
        /\ recording_contexts' =
               ClearContexts(recording_contexts, mp4_writers,
                             mp4_writer_stream_names, todo)
        /\ closed' = CloseCollected(closed, mp4_writers, todo)
        /\ recordings' = recordings
        /\ last' = [Call("close_all", EmptyName, NULL, 0) EXCEPT
                        !.events = StopEvents(mp4_writers, todo)]
        /\ UNCHANGED <<frame_buffers, threadVars, config, catalogVars, otherVars>>

CloseAll == close_all_mp4_writers

(* -------------------------- recording contexts ------------------------- *)

\* A recording thread starts for the stream of writer w: the first free
\* context takes the stream's name and the writer the thread created.
StartRecording(w) ==
    LET free == {j \in Slots : ~recording_contexts[j].alloc}
    IN  /\ free # {}
        /\ closed[w] = 0
        /\ \A j \in Slots : recording_contexts[j].alloc
                            => recording_contexts[j].name # WriterStream(w)
        /\ recording_contexts' =
               [recording_contexts EXCEPT ![Min(free)] =
                    [alloc |-> TRUE, name |-> WriterStream(w), mp4_writer |-> w]]
        /\ last' = NoCall
        /\ UNCHANGED <<registryVars, frame_buffers, closed, recordings,
                       threadVars, config, catalogVars, otherVars>>

Push == \E j \in Slots, key \in BOOLEAN : PushFrame(j, key)

Start == \E w \in Writers : StartRecording(w)

(* ------------------------ threads, step by step ------------------------ *)
(* None of the four registry functions takes a lock, so calls made by two   *)
(* threads interleave between their accesses to mp4_writers. A call is cut  *)
(* where the code separates reading the arrays from writing them or from    *)
(* closing a writer.                                                        *)

Idle(t) == pc[t] = "idle" /\ local[t].calls < MaxCalls

Returned(t, loc) == [loc EXCEPT !.calls = local[t].calls + 1]

seqVars == <<recordings, last>>

\* A writer a thread has just created: live, held by no slot and not the
\* argument of a register call in progress.
FreshWriter(w) ==
    /\ closed[w] = 0
    /\ \A i \in Slots : mp4_writers[i] # w
    /\ \A u \in Threads :
           pc[u] \in {"reg_write", "reg_close"} => local[u].writer # w

\* register, lines 827-846: the scan. On the replacement path the slot is
\* overwritten inside the loop; on the first-registration path only the
\* index of the empty slot is kept.
RegScan(t, name, w) ==
    /\ Idle(t)
    /\ FreshWriter(w)
    /\ LET r   == RegisterScan(mp4_writers, mp4_writer_stream_names, name)
           loc == [local[t] EXCEPT !.op = "register", !.name = name,
                                   !.writer = w, !.slot = r.idx,
                                   !.old = NULL, !.ret = 0]
       IN  CASE r.kind = "replace" ->
                  /\ mp4_writers' = [mp4_writers EXCEPT ![r.idx] = w]
                  /\ local' = [local EXCEPT ![t] =
                                  [loc EXCEPT !.old = mp4_writers[r.idx]]]
                  /\ pc' = [pc EXCEPT ![t] = "reg_close"]
             [] r.kind = "empty" ->
                  /\ mp4_writers' = mp4_writers
                  /\ local' = [local EXCEPT ![t] = loc]
                  /\ pc' = [pc EXCEPT ![t] = "reg_write"]
             [] OTHER ->
                  /\ mp4_writers' = mp4_writers
                  /\ local' = [local EXCEPT ![t] =
                                  Returned(t, [loc EXCEPT !.ret = -1])]
                  /\ pc' = pc
    /\ UNCHANGED <<mp4_writer_stream_names, frame_buffers, recording_contexts,
                   closed, seqVars, config, catalogVars, otherVars>>

\* register, lines 848-879: flush the stream's buffer into the new writer,
\* close the old writer, return 0.
RegClose(t) ==
    /\ pc[t] = "reg_close"
    /\ \E capacity \in PreBufferCapacity(local[t].name) :
       LET name == local[t].name
           bidx == IF capacity > 0
                   THEN FindFrameBuffer(frame_buffers, mp4_writer_stream_names, name)
                   ELSE -1
       IN  /\ frame_buffers' = IF bidx >= 0
                               THEN flush_frame_buffer(frame_buffers, bidx)
                               ELSE frame_buffers
           /\ closed' = IF local[t].old # NULL
                        THEN mp4_writer_close(closed, local[t].old) ELSE closed
    /\ pc' = [pc EXCEPT ![t] = "idle"]
    /\ local' = [local EXCEPT ![t] = Returned(t, local[t])]
    /\ UNCHANGED <<registryVars, recording_contexts, seqVars, config, catalogVars, otherVars>>

\* register, lines 888-915: store writer and name in the slot the scan
\* chose, initialise the pre-roll buffer, return 0.
RegWrite(t) ==
    /\ pc[t] = "reg_write"
    /\ LET name == local[t].name
       IN  /\ mp4_writers' = [mp4_writers EXCEPT ![local[t].slot] = local[t].writer]
           /\ mp4_writer_stream_names' =
                  [mp4_writer_stream_names EXCEPT ![local[t].slot] = name]
           /\ \E capacity \in PreBufferCapacity(name) :
                  frame_buffers' =
                      IF capacity > 0
                      THEN init_frame_buffer(frame_buffers, name,
                                             ClampCapacity(capacity))
                      ELSE frame_buffers
    /\ pc' = [pc EXCEPT ![t] = "idle"]
    /\ local' = [local EXCEPT ![t] = Returned(t, local[t])]
    /\ UNCHANGED <<recording_contexts, closed, seqVars, config, catalogVars, otherVars>>

\* unregister, lines 968-976: the scan for the stream's slot.
UnregScan(t, name) ==
    /\ Idle(t)
    /\ LET idx == FindWriterSlot(mp4_writers, mp4_writer_stream_names, name)
           loc == [local[t] EXCEPT !.op = "unregister", !.name = name,
                                   !.writer = NULL, !.slot = idx,
                                   !.old = NULL, !.ret = 0]
       IN  IF idx >= 0
           THEN /\ local' = [local EXCEPT ![t] = loc]
                /\ pc' = [pc EXCEPT ![t] = "unreg_clear"]
           ELSE /\ local' = [local EXCEPT ![t] = Returned(t, loc)]
                /\ pc' = pc
    /\ UNCHANGED <<registryVars, frame_buffers, recording_contexts, closed,
                   seqVars, config, catalogVars, otherVars>>

\* unregister, lines 979-1001: clear the slot found, free the stream's buffer.
UnregClear(t) ==
    /\ pc[t] = "unreg_clear"
    /\ LET idx  == local[t].slot
           ns2  == [mp4_writer_stream_names EXCEPT ![idx] = EmptyName]
           bidx == FindFrameBuffer(frame_buffers, ns2, local[t].name)
       IN  /\ mp4_writers' = [mp4_writers EXCEPT ![idx] = NULL]
           /\ mp4_writer_stream_names' = ns2
           /\ frame_buffers' = IF bidx >= 0
                               THEN free_frame_buffer(frame_buffers, bidx)
                               ELSE frame_buffers
    /\ pc' = [pc EXCEPT ![t] = "idle"]
    /\ local' = [local EXCEPT ![t] = Returned(t, local[t])]
    /\ UNCHANGED <<recording_contexts, closed, seqVars, config, catalogVars, otherVars>>

\* A caller looks the stream's writer up (get_mp4_writer_for_stream) and
\* starts working with the pointer it got.
Lookup(t, name) ==
    /\ Idle(t)
    /\ LET w   == get_mp4_writer_for_stream(name)
           loc == [local[t] EXCEPT !.op = "get", !.name = name, !.writer = w,
                                   !.slot = -1, !.old = NULL, !.ret = 0]
       IN  IF w # NULL
           THEN /\ local' = [local EXCEPT ![t] = loc]
                /\ pc' = [pc EXCEPT ![t] = "using"]
           ELSE /\ local' = [local EXCEPT ![t] = Returned(t, loc)]
                /\ pc' = pc
    /\ UNCHANGED <<registryVars, frame_buffers, recording_contexts, closed,
                   seqVars, config, catalogVars, otherVars>>

\* The caller's operation on the looked-up writer ends.
Release(t) ==
    /\ pc[t] = "using"
    /\ pc' = [pc EXCEPT ![t] = "idle"]
    /\ local' = [local EXCEPT ![t] = Returned(t, local[t])]
    /\ UNCHANGED <<registryVars, frame_buffers, recording_contexts, closed,
                   seqVars, config, catalogVars, otherVars>>

\* close_all, lines 1015-1062: copy every registered writer and name into
\* the local arrays and clear the global entries.
CloseAllCollect(t) ==
    /\ Idle(t)
    /\ LET todo == SlotsToClose(mp4_writers, mp4_writer_stream_names)
       IN  /\ mp4_writers' =
                  [i \in Slots |-> IF i \in todo THEN NULL ELSE mp4_writers[i]]
           /\ mp4_writer_stream_names' =
                  [i \in Slots |-> IF i \in todo THEN EmptyName
                                   ELSE mp4_writer_stream_names[i]]
           /\ local' = [local EXCEPT ![t] =
                  [local[t] EXCEPT
                      !.op = "close_all", !.name = EmptyName, !.writer = NULL,
                      !.slot = -1, !.old = NULL, !.ret = 0,
                      !.writers_to_close =
                          [i \in Slots |-> IF i \in todo THEN mp4_writers[i] ELSE NULL],
                      !.stream_names_to_close =
                          [i \in Slots |-> IF i \in todo
                                           THEN mp4_writer_stream_names[i]
                                           ELSE EmptyName]]]
    /\ pc' = [pc EXCEPT ![t] = "closing"]
    /\ UNCHANGED <<frame_buffers, recording_contexts, closed, seqVars, config, catalogVars, otherVars>>

\* close_all, lines 1064-1105: the closing loop over the local arrays.
CloseAllClose(t) ==
    /\ pc[t] = "closing"
    /\ LET ws   == local[t].writers_to_close
           ns   == local[t].stream_names_to_close
           todo == {i \in Slots : ws[i] # NULL}
       IN  /\ recording_contexts' = ClearContexts(recording_contexts, ws, ns, todo)
           /\ closed' = CloseCollected(closed, ws, todo)
    /\ pc' = [pc EXCEPT ![t] = "idle"]
    /\ local' = [local EXCEPT ![t] =
           Returned(t, [local[t] EXCEPT
                           !.writers_to_close = [i \in Slots |-> NULL],
                           !.stream_names_to_close = [i \in Slots |-> EmptyName]])]
    /\ UNCHANGED <<registryVars, frame_buffers, seqVars, config, catalogVars, otherVars>>

(* ------------------------- stream catalog calls ------------------------ *)

\* The value a catalog call returns when it fails: 0 from add_stream_config
\* (whose result is a row id), -1 from the others.
ErrorReturn(op) == IF op = "add" THEN 0 ELSE -1

\* A catalog call that fails before it writes: error value, table as it was.
DbFail(op, name, stream, io, ret) ==
    /\ streams' = streams
    /\ db_call' = DbCall(op, name, stream, io, ret)

\* sqlite3_step of the INSERT: SQLITE_DONE and the new table, or an error
\* (I/O, or the UNIQUE constraint on name) and the table as it was.
InsertStep(rows, stream, io) ==
    LET new == rows \cup {MakeRow(NextRowId(rows), stream.name, BindColumns(stream))}
    IN  IF io # "step" /\ NameUnique(new)
        THEN [ok |-> TRUE, rows |-> new, id |-> NextRowId(rows)]
        ELSE [ok |-> FALSE, rows |-> rows, id |-> 0]

\* (mutant) the disabled-row UPDATE that writes every column but enabled.
UpdateDisabledRowKeepsFlag(row, stream) ==
    MakeRow(row.id, row.name,
            [BindColumns(stream) EXCEPT !.enabled = row.cols.enabled])

\* The row the UPDATE of add_stream_config leaves (WHERE id = existing_id):
\* every column but id and name is rewritten from the config.
UpdateDisabledRow(row, stream) == MakeRow(row.id, row.name, BindColumns(stream))

\* Faults a call can meet: no database handle, a failing sqlite3_prepare_v2,
\* a failing sqlite3_step (for add_stream_config also on its first query).
Faults == {"ok", "nodb", "prepare", "step"}
AddFaults == Faults \cup {"check_prepare", "check_step"}

\* add_stream_config(stream).
add_stream_config(stream, io) ==
    LET disabled == {r \in RowsNamed(streams, stream.name) : r.cols.enabled = 0}
    IN  /\ IF io = "nodb" \/ stream = NoConfig \/ io = "check_prepare"
           THEN DbFail("add", stream.name, stream, io, 0)
           ELSE IF io # "check_step" /\ disabled # {}
           THEN \* the stream exists but is disabled: update it
                LET existing == CHOOSE r \in disabled : TRUE
                IN  IF io \in {"prepare", "step"}
                    THEN DbFail("add", stream.name, stream, io, 0)
                    ELSE /\ streams' = (streams \ {existing})
                                           \cup {UpdateDisabledRow(existing, stream)}
                         /\ db_call' = [DbCall("add", stream.name, stream, io,
                                               existing.id)
                                           EXCEPT !.existing = existing.id]
           ELSE \* no disabled stream found: insert a new one
                IF io = "prepare"
                THEN DbFail("add", stream.name, stream, io, 0)
                ELSE LET res == InsertStep(streams, stream, io)
                     IN  /\ res.ok => res.id <= MaxRowId
                         /\ streams' = res.rows
                         /\ db_call' = DbCall("add", stream.name, stream, io,
                                              res.id)
        /\ upserted' = IF stream # NoConfig /\ (io = "ok" \/ db_call'.ret # 0)
                       THEN [upserted EXCEPT ![stream.name] = stream]
                       ELSE upserted
        /\ UNCHANGED <<engineVars, otherVars>>

AddStream == \E stream \in Configs \cup {NoConfig}, io \in AddFaults :
                 add_stream_config(stream, io)

\* (mutant) update_stream_config returning 0 whatever sqlite3_step returned.
UpdateResultIgnored(done) == 0

\* The value update_stream_config returns for the result of sqlite3_step.
UpdateResult(done) == IF done THEN 0 ELSE -1

\* update_stream_config(name, stream): one UPDATE ... WHERE name = ?, which
\* also rewrites the name column.
update_stream_config(name, stream, io) ==
    /\ IF io \in {"nodb", "prepare"} \/ stream = NoConfig
       THEN DbFail("update", name, stream, io, -1)
       ELSE LET new  == {IF r.name = name
                         THEN MakeRow(r.id, stream.name, BindColumns(stream))
                         ELSE r : r \in streams}
                done == io # "step" /\ NameUnique(new)
            IN  /\ streams' = IF done THEN new ELSE streams
                /\ db_call' = DbCall("update", name, stream, io,
                                     UpdateResult(done))
    /\ upserted' = upserted
    /\ UNCHANGED <<engineVars, otherVars>>

UpdateStream == \E name \in CatalogNames, stream \in Configs \cup {NoConfig},
                   io \in Faults : update_stream_config(name, stream, io)

\* (mutant) the soft delete issuing the DELETE statement.
SoftDeleteRemoves(rows, name) == {r \in rows : r.name # name}

\* UPDATE streams SET enabled = 0 WHERE name = ?
SoftDelete(rows, name) ==
    {IF r.name = name THEN [r EXCEPT !.cols.enabled = 0] ELSE r : r \in rows}

\* (mutant) the permanent delete issuing the UPDATE statement.
HardDeleteDisables(rows, name) ==
    {IF r.name = name THEN [r EXCEPT !.cols.enabled = 0] ELSE r : r \in rows}

\* (mutant) the permanent delete with its WHERE clause inverted.
HardDeleteOthers(rows, name) == {r \in rows : r.name = name}

\* DELETE FROM streams WHERE name = ?
HardDelete(rows, name) == {r \in rows : r.name # name}

\* delete_stream_config_internal(name, permanent).
delete_stream_config_internal(name, permanent, io) ==
    /\ IF io # "ok"
       THEN /\ DbFail(IF permanent THEN "hard_delete" ELSE "soft_delete",
                      name, NoConfig, io, -1)
            /\ upserted' = upserted
       ELSE /\ streams' = IF permanent THEN HardDelete(streams, name)
                          ELSE SoftDelete(streams, name)
            /\ db_call' = [DbCall(IF permanent THEN "hard_delete"
                                  ELSE "soft_delete", name, NoConfig, io, 0)
                              EXCEPT !.changed = Cardinality(RowsNamed(streams, name))]
            /\ upserted' = IF permanent /\ RowsNamed(streams, name) # {}
                           THEN [upserted EXCEPT ![name] = NoConfig]
                           ELSE upserted
    /\ UNCHANGED <<engineVars, otherVars>>

\* delete_stream_config(name).
delete_stream_config(name, io) == delete_stream_config_internal(name, FALSE, io)

SoftDeleteStream == \E name \in CatalogNames, io \in Faults :
                        delete_stream_config(name, io)

HardDeleteStream == \E name \in CatalogNames, io \in Faults :
                        delete_stream_config_internal(name, TRUE, io)

\* (mutant) the reader that skips the detection columns.
ParseRowBasic(r) ==
    [ParseRow(r) EXCEPT !.detection_based_recording = FALSE,
                        !.detection_model = <<>>,
                        !.detection_threshold = DefaultThreshold,
                        !.detection_interval = 10,
                        !.pre_detection_buffer = 0,
                        !.post_detection_buffer = 3,
                        !.protocol = 0, !.is_onvif = FALSE,
                        !.record_audio = FALSE]

\* The config get_stream_config_by_name fills from the row it found.
GetParse(r) == ParseRow(r)

\* The value get_stream_config_by_name returns: 0 when the step of the
\* SELECT returned a row, else the initial result -1.
GetReturn(rows, name, io) ==
    IF io # "ok" \/ RowsNamed(rows, name) = {} THEN -1 ELSE 0

\* The config get_stream_config_by_name writes to *stream (untouched when
\* it returns -1).
GetOut(rows, name, io) ==
    IF GetReturn(rows, name, io) = 0
    THEN GetParse(CHOOSE r \in RowsNamed(rows, name) : TRUE)
    ELSE NoConfig

\* get_stream_config_by_name(name, stream).
get_stream_config_by_name(name, io) ==
    /\ db_call' = [DbCall("get", name, NoConfig, io, GetReturn(streams, name, io))
                      EXCEPT !.out = GetOut(streams, name, io)]
    /\ UNCHANGED <<streams, upserted>>
    /\ UNCHANGED <<engineVars, otherVars>>

GetStream == \E name \in CatalogNames, io \in Faults :
                 get_stream_config_by_name(name, io)

\* The first n entries of a sequence.
Take(s, n) == SubSeq(s, 1, IF Len(s) < n THEN Len(s) ELSE n)

\* get_all_stream_configs(streams, max_count). The loop ends at the first
\* sqlite3_step that does not return SQLITE_ROW, an error included, and the
\* number of rows read so far is returned.
get_all_stream_configs(max_count, io) ==
    /\ IF io \in {"nodb", "prepare"} \/ max_count <= 0
       THEN db_call' = DbCall("list", <<>>, NoConfig, io, -1)
       ELSE LET sorted == OrderByName(streams)
                read   == IF io = "step" THEN <<>> ELSE Take(sorted, max_count)
            IN  db_call' = [DbCall("list", <<>>, NoConfig, io, Len(read)) EXCEPT
                               !.list = [k \in 1 .. Len(read) |-> ParseRow(read[k])]]
    /\ UNCHANGED <<streams, upserted>>
    /\ UNCHANGED <<engineVars, otherVars>>

ListStreams == \E max_count \in {0, 1, Cardinality(CatalogNames)}, io \in Faults :
                   get_all_stream_configs(max_count, io)

\* count_stream_configs(): SELECT COUNT(*) FROM streams.
CountRows(rows) == Cardinality(rows)

count_stream_configs(io) ==
    /\ db_call' = DbCall("count", <<>>, NoConfig, io,
                         IF io = "ok" THEN CountRows(streams) ELSE -1)
    /\ UNCHANGED <<streams, upserted>>
    /\ UNCHANGED <<engineVars, otherVars>>

CountStreams == \E io \in Faults : count_stream_configs(io)

(* --------------------- catalog calls, step by step --------------------- *)
(* Two threads calling the catalog at the same time. A call is cut at its   *)
(* pthread_mutex_lock and between its SQL statements; every step that       *)
(* returns after the lock unlocks first, as the code does.                  *)

\* (mutant) a lock that never waits.
LockNeverWaits(t) == TRUE

\* pthread_mutex_lock(db_mutex) returns to thread t only while no thread
\* holds the mutex.
LockGranted(t) == db_mutex = NoOwner

\* What a catalog call leaves alone besides the engine.
DbOutside == <<engineVars, playVars, storeVars, timelineVars, retentionVars,
               captureVars>>

\* pthread_mutex_unlock(db_mutex) followed by the return of value ret.
DbReturn(t, ret) ==
    /\ db_mutex' = NoOwner
    /\ db_pc' = [db_pc EXCEPT ![t] = "idle"]
    /\ db_local' = [db_local EXCEPT ![t] = NoDbLocal]
    /\ db_call' = DbCall(db_local[t].op, db_local[t].name, db_local[t].stream,
                         db_local[t].io, ret)

\* The statements of a call before its pthread_mutex_lock: the call
\* returns its error value when there is no database handle or no config,
\* without having taken the mutex; else it takes the mutex.
DbEnter(t, op, name, stream, io) ==
    /\ db_pc[t] = "idle"
    /\ IF io = "nodb" \/ (op \in {"add", "update"} /\ stream = NoConfig)
       THEN /\ db_call' = DbCall(op, name, stream, io, ErrorReturn(op))
            /\ UNCHANGED lockVars
       ELSE /\ LockGranted(t)
            /\ db_mutex' = t
            /\ db_pc' = [db_pc EXCEPT ![t] = "locked"]
            /\ db_local' = [db_local EXCEPT ![t] = DbLocal(op, name, stream, io, 0)]
            /\ db_call' = NoDbCall
    /\ UNCHANGED <<streams, upserted, DbOutside>>

\* add_stream_config, its first query: SELECT id FROM streams WHERE name = ?
\* AND enabled = 0.
AddCheck(t) ==
    LET loc == db_local[t]
        disabled == {r \in RowsNamed(streams, loc.stream.name) : r.cols.enabled = 0}
    IN  /\ db_pc[t] = "locked" /\ loc.op = "add"
        /\ IF loc.io = "check_prepare"
           THEN DbReturn(t, 0)
           ELSE /\ db_pc' = [db_pc EXCEPT ![t] = "checked"]
                /\ db_local' = [db_local EXCEPT ![t].existing =
                                   IF loc.io # "check_step" /\ disabled # {}
                                   THEN (CHOOSE r \in disabled : TRUE).id ELSE 0]
                /\ db_call' = NoDbCall
                /\ UNCHANGED db_mutex
        /\ UNCHANGED <<streams, upserted, DbOutside>>

\* add_stream_config, its second statement: the UPDATE ... WHERE id =
\* existing_id when the first query found a disabled row, else the INSERT.
AddWrite(t) ==
    LET loc == db_local[t]
    IN  /\ db_pc[t] = "checked"
        /\ IF loc.io = "prepare"
           THEN /\ DbReturn(t, 0)
                /\ streams' = streams
           ELSE IF loc.existing # 0
           THEN IF loc.io = "step"
                THEN /\ DbReturn(t, 0)
                     /\ streams' = streams
                ELSE /\ streams' = {IF r.id = loc.existing
                                    THEN UpdateDisabledRow(r, loc.stream)
                                    ELSE r : r \in streams}
                     /\ DbReturn(t, loc.existing)
           ELSE LET res == InsertStep(streams, loc.stream, loc.io)
                IN  /\ res.ok => res.id <= MaxRowId
                    /\ streams' = res.rows
                    /\ DbReturn(t, res.id)
        /\ UNCHANGED <<upserted, DbOutside>>

\* update_stream_config after its lock: the UPDATE ... WHERE name = ?.
UpdateWrite(t) ==
    LET loc  == db_local[t]
        new  == {IF r.name = loc.name
                 THEN MakeRow(r.id, loc.stream.name, BindColumns(loc.stream))
                 ELSE r : r \in streams}
        done == loc.io = "ok" /\ NameUnique(new)
    IN  /\ db_pc[t] = "locked" /\ loc.op = "update"
        /\ streams' = IF done THEN new ELSE streams
        /\ DbReturn(t, IF loc.io = "prepare" THEN -1 ELSE UpdateResult(done))
        /\ UNCHANGED <<upserted, DbOutside>>

\* delete_stream_config_internal after its lock: the UPDATE that disables,
\* or the DELETE.
DeleteWrite(t) ==
    LET loc == db_local[t]
    IN  /\ db_pc[t] = "locked" /\ loc.op \in {"soft_delete", "hard_delete"}
        /\ streams' = IF loc.io # "ok" THEN streams
                      ELSE IF loc.op = "hard_delete"
                      THEN HardDelete(streams, loc.name)
                      ELSE SoftDelete(streams, loc.name)
        /\ DbReturn(t, IF loc.io # "ok" THEN -1 ELSE 0)
        /\ UNCHANGED <<upserted, DbOutside>>

\* get_stream_config_by_name after its lock: the SELECT and the parse.
GetRead(t) ==
    LET loc == db_local[t]
    IN  /\ db_pc[t] = "locked" /\ loc.op = "get"
        /\ db_mutex' = NoOwner
        /\ db_pc' = [db_pc EXCEPT ![t] = "idle"]
        /\ db_local' = [db_local EXCEPT ![t] = NoDbLocal]
        /\ db_call' = [DbCall("get", loc.name, NoConfig, loc.io,
                              GetReturn(streams, loc.name, loc.io))
                          EXCEPT !.out = GetOut(streams, loc.name, loc.io)]
        /\ UNCHANGED <<streams, upserted, DbOutside>>

(* ------------------------------ playback ------------------------------- *)
(* recordings_playback_task.c: GET /api/recordings/play/:id. The handler    *)
(* runs on the caller's thread; the task it queues runs on a thread of the  *)
(* API thread pool. is_request_active, mark_request_active and              *)
(* mark_request_inactive each run under g_playback_mutex from their first   *)
(* access to g_active_requests to their last, so each is one step.          *)

\* A row of the recordings table. end_time is SqlNull until the recording
\* is marked complete.
SegRow(id, path, start, end, size, complete) ==
    [id |-> id, file_path |-> path, start_time |-> start, end_time |-> end,
     size_bytes |-> size, is_complete |-> complete, error |-> FALSE]

\* A finished file of the given size.
FinalFile(size) == [kind |-> "final", size |-> size]

\* What a playback step leaves alone.
PlayOutside == <<engineVars, catalogVars, lockVars, storeVars, timelineVars,
                 retentionVars, captureVars>>

\* is_request_active(id).
is_request_active(tab, id) ==
    \E i \in ActiveEntries : tab[i].id = id /\ tab[i].active

\* (mutant) mark_request_active without its first loop.
MarkRequestActiveUnchecked(tab, id) ==
    LET free == {i \in ActiveEntries : ~tab[i].active}
    IN  IF free = {} THEN [ok |-> FALSE, tab |-> tab]
        ELSE [ok |-> TRUE,
              tab |-> [tab EXCEPT ![Min(free)] = [id |-> id, active |-> TRUE]]]

\* mark_request_active(id): false when the id is already active or no entry
\* is free, else the first free entry takes the id.
mark_request_active(tab, id) ==
    LET free == {i \in ActiveEntries : ~tab[i].active}
    IN  IF is_request_active(tab, id) \/ free = {}
        THEN [ok |-> FALSE, tab |-> tab]
        ELSE [ok |-> TRUE,
              tab |-> [tab EXCEPT ![Min(free)] = [id |-> id, active |-> TRUE]]]

\* (mutant) mark_request_inactive that clears nothing.
MarkRequestInactiveSkipped(tab, id) == tab

\* (mutant) mark_request_inactive that clears every entry.
MarkRequestInactiveAll(tab, id) ==
    [i \in ActiveEntries |-> [tab[i] EXCEPT !.active = FALSE]]

\* mark_request_inactive(id): the first active entry of the id is cleared.
mark_request_inactive(tab, id) ==
    LET hits == {i \in ActiveEntries : tab[i].id = id /\ tab[i].active}
    IN  IF hits = {} THEN tab
        ELSE [tab EXCEPT ![Min(hits)].active = FALSE]

\* mg_handle_play_recording up to the return of is_request_active: 400 for
\* an id of 0, 429 when the id is active.
PlayCheck(t, id) ==
    /\ ~aborted
    /\ play_local[t].pc = "idle"
    /\ IF id = 0
       THEN /\ play_call' = PlayCall("handle", id, 400, FALSE)
            /\ UNCHANGED play_local
       ELSE IF is_request_active(g_active_requests, id)
       THEN /\ play_call' = PlayCall("handle", id, 429, FALSE)
            /\ UNCHANGED play_local
       ELSE /\ play_call' = NoPlayCall
            /\ play_local' = [play_local EXCEPT ![t] = [pc |-> "checked", id |-> id]]
    /\ hm_frees' = 0
    /\ UNCHANGED <<g_active_requests, play_tasks, aborted, PlayOutside>>

\* mg_handle_play_recording, its call of mark_request_active: 503 when it
\* returns false.
PlayMark(t) ==
    LET id  == play_local[t].id
        res == mark_request_active(g_active_requests, id)
    IN  /\ ~aborted
        /\ play_local[t].pc = "checked"
        /\ g_active_requests' = res.tab
        /\ IF res.ok
           THEN /\ play_local' = [play_local EXCEPT ![t].pc = "marked"]
                /\ play_call' = NoPlayCall
           ELSE /\ play_local' = [play_local EXCEPT ![t] = NoPlayLocal]
                /\ play_call' = PlayCall("handle", id, 503, FALSE)
        /\ hm_frees' = 0
        /\ UNCHANGED <<play_tasks, aborted, PlayOutside>>

\* What can fail between mark_request_active and the end of the handler:
\* the malloc of the message copy, api_thread_pool_acquire,
\* playback_recording_task_create, thread_pool_add_task.
PlayFaults == {"ok", "malloc", "pool", "task", "add"}

\* The calls of free on the message copy on a failure path of the handler:
\* none when its malloc failed; free(hm_copy) when the pool or the task is
\* not obtained; playback_recording_task_free(task), which frees task->hm,
\* and then free(hm_copy) when thread_pool_add_task fails.
FailureFrees(io) ==
    IF io = "malloc" THEN 0
    ELSE IF io \in {"pool", "task"} THEN 1
    ELSE 2

\* mg_handle_play_recording after mark_request_active returned true: the
\* task is handed to the thread pool, or the id is released and 500 sent.
\* When thread_pool_add_task fails the handler frees the message copy that
\* playback_recording_task_free has just freed; the process is aborted by
\* the allocator or goes on.
PlaySubmit(t, io) ==
    LET id == play_local[t].id
    IN  /\ ~aborted
        /\ play_local[t].pc = "marked"
        /\ play_local' = [play_local EXCEPT ![t] = NoPlayLocal]
        /\ IF io = "ok" /\ BagCardinality(play_tasks) < MaxTasks
           THEN /\ play_tasks' = play_tasks (+) SetToBag({Task("queued", id)})
                /\ play_call' = NoPlayCall
                /\ hm_frees' = 0
                /\ UNCHANGED <<g_active_requests, aborted>>
           ELSE /\ g_active_requests' = mark_request_inactive(g_active_requests, id)
                /\ play_call' = PlayCall("handle", id, 500, FALSE)
                /\ hm_frees' = FailureFrees(io)
                /\ aborted' \in (IF hm_frees' > 1 THEN BOOLEAN ELSE {FALSE})
                /\ UNCHANGED play_tasks
        /\ UNCHANGED PlayOutside

\* get_recording_metadata_by_id(id, &recording) == 0: the row was read.
RecordingFound(id, io) == io = "ok" /\ \E r \in segments : r.id = id

\* stat(recording.file_path, &st) == 0 for the row of the id.
RecordingFileFound(id) ==
    \E r \in segments : r.id = id /\ files[r.file_path].kind = "final"

\* (mutant) a task that serves whatever the lookups returned.
PlayReplyAlwaysServes(id, io) == PlayCall("task", id, 200, TRUE)

\* The reply of playback_recording_task_function on an open connection:
\* 404 when the row is not read or stat fails, else the file is served.
PlayReply(id, io) ==
    IF ~RecordingFound(id, io) \/ ~RecordingFileFound(id)
    THEN PlayCall("task", id, 404, FALSE)
    ELSE PlayCall("task", id, 200, TRUE)

\* playback_recording_task_function up to its mark_request_inactive. A task
\* whose connection is closing replies nothing.
TaskRun(task, closing, io) ==
    LET id == task.id
    IN  /\ ~aborted
        /\ BagIn(task, play_tasks) /\ task.pc = "queued"
        /\ play_call' = IF closing THEN PlayCall("task_closing", id, 0, FALSE)
                        ELSE PlayReply(id, io)
        /\ g_active_requests' = mark_request_inactive(g_active_requests, id)
        /\ play_tasks' = (play_tasks (-) SetToBag({task}))
                             (+) SetToBag({Task("released", id)})
        /\ hm_frees' = 0
        /\ UNCHANGED <<play_local, aborted, PlayOutside>>

\* playback_recording_task_function after its mark_request_inactive:
\* playback_recording_task_free and the return to the pool.
TaskReturn(task) ==
    /\ ~aborted
    /\ BagIn(task, play_tasks) /\ task.pc = "released"
    /\ play_tasks' = play_tasks (-) SetToBag({task})
    /\ play_call' = NoPlayCall
    /\ hm_frees' = 1
    /\ UNCHANGED <<g_active_requests, play_local, aborted, PlayOutside>>

(* ------------------------------ timeline ------------------------------- *)

\* difftime(segment.end_time, segment.start_time), in seconds.
SegmentDuration(seg) == seg.end_time - seg.start_time

\* max_duration after the loop over the first count segments: the largest
\* duration above the initial 0, else 0.
MaxDuration(segs, count) ==
    Max({0} \cup {SegmentDuration(segs[i]) : i \in 1 .. count})

\* (mutant) one EXTINF entry per segment, each with the segment's duration
\* and start.
ManifestEntriesPerSegment(segs, count, start_time) ==
    [i \in 1 .. count |-> [duration |-> SegmentDuration(segs[i]),
                           start |-> segs[i].start_time]]

\* The EXTINF entries create_timeline_manifest writes: "a single segment for
\* the entire timeline", with max_duration and the URI
\* /api/timeline/play?stream=<stream>&start=<start_time>.
ManifestEntries(segs, count, start_time) ==
    <<[duration |-> MaxDuration(segs, count), start |-> start_time]>>

\* create_timeline_manifest(segments, segment_count, start_time,
\* manifest_path) on the arguments of the pending call; io is "fopen" when
\* the manifest file cannot be created.
create_timeline_manifest ==
    LET segs == manifest.segments
        segment_count == Len(segs)
        count == IF segment_count > MAX_MANIFEST_SEGMENTS
                 THEN MAX_MANIFEST_SEGMENTS ELSE segment_count
    IN  /\ manifest.pc = "called"
        /\ manifest' =
               IF segment_count <= 0 \/ manifest.io = "fopen"
               THEN [manifest EXCEPT !.pc = "done", !.ret = -1]
               ELSE [manifest EXCEPT
                        !.pc = "done", !.ret = 0,
                        !.target_duration = MaxDuration(segs, count) + 1,
                        !.entries = ManifestEntries(segs, count, manifest.start_time)]
        /\ UNCHANGED <<engineVars, catalogVars, lockVars, playVars, storeVars,
                       retentionVars, captureVars, tl_req, tl_play>>

\* Segment lists get_timeline_segments returns, of up to n segments: rows in
\* ascending order of start_time, the end_time of a row being whatever the
\* table holds.
RECURSIVE SegmentLists(_)
SegmentLists(n) ==
    IF n = 0 THEN {<<>>}
    ELSE LET shorter == SegmentLists(n - 1)
         IN  shorter \cup
             {Append(l, TimelineSegment(Len(l) + 1, st, en)) :
                 l \in {x \in shorter : Len(x) = n - 1},
                 st \in Times, en \in Times}

SortedByStart(l) ==
    \A i \in 1 .. (Len(l) - 1) : l[i].start_time <= l[i + 1].start_time

\* A call of create_timeline_manifest on any list of up to one segment more
\* than a manifest holds.
InitTimeline ==
    /\ InitState
    /\ config = [n \in StreamNames |-> DefaultConfig(n)]
    /\ segments = {}
    /\ files = [p \in Paths |-> NoFile]
    /\ now = 0
    /\ policy = [retention_days |-> 0, quota |-> 0]
    /\ cleaner = NoCleaner
    /\ \E segs \in {l \in SegmentLists(MAX_MANIFEST_SEGMENTS + 1) : SortedByStart(l)},
          start_time \in Times, io \in {"ok", "fopen"} :
           manifest = ManifestCall("called", segs, start_time, io, -1, 0, <<>>)
    /\ tl_play = NoTimelinePlay

CreateManifest == create_timeline_manifest

\* start_time >= segments[i].start_time && start_time <= segments[i].end_time
ContainsStart(seg, start_time) ==
    start_time >= seg.start_time /\ start_time <= seg.end_time

\* (mutant) the first segment after the start is preferred to the segment
\* that contains the start.
StartSegmentIndexAfterFirst(segs, count, start_time) ==
    LET after == {i \in 0 .. (count - 1) :
                     start_time < segs[i + 1].start_time}
        containing == {i \in 0 .. (count - 1) :
                          ContainsStart(segs[i + 1], start_time)}
    IN  IF after # {} THEN Min(after)
        ELSE IF containing # {} THEN Min(containing)
        ELSE 0

\* start_segment_index after the two loops and the fallback of
\* mg_handle_timeline_playback, for count > 0: each loop breaks at its first
\* match, the second runs when the first found nothing, and index 0 stands
\* when neither found anything. Indexes count from 0 as in the source.
StartSegmentIndex(segs, count, start_time) ==
    LET containing == {i \in 0 .. (count - 1) :
                          ContainsStart(segs[i + 1], start_time)}
        after == {i \in 0 .. (count - 1) :
                     start_time < segs[i + 1].start_time}
    IN  IF containing # {} THEN Min(containing)
        ELSE IF after # {} THEN Min(after)
        ELSE 0

\* mg_handle_timeline_playback on the inputs of the pending call: 400
\* without a stream or with a start that does not parse, 500 when malloc
\* fails, 404 when get_timeline_segments returns no row or fails, else 302
\* to /api/recordings/play/<id of the chosen segment>.
mg_handle_timeline_playback ==
    LET segs == tl_play.segments
        count == IF tl_play.io = "db" THEN -1 ELSE Len(segs)
        index == StartSegmentIndex(segs, count, tl_play.start_time)
    IN  /\ tl_play.pc = "called"
        /\ tl_play' =
               IF tl_play.io \in {"stream", "start"}
               THEN [tl_play EXCEPT !.pc = "done", !.status = 400]
               ELSE IF tl_play.io = "malloc"
               THEN [tl_play EXCEPT !.pc = "done", !.status = 500]
               ELSE IF count <= 0
               THEN [tl_play EXCEPT !.pc = "done", !.status = 404]
               ELSE [tl_play EXCEPT !.pc = "done", !.status = 302,
                                    !.index = index,
                                    !.recording_id = segs[index + 1].id]
        /\ UNCHANGED <<engineVars, catalogVars, lockVars, playVars, storeVars,
                       retentionVars, captureVars, manifest, tl_req>>

TimelinePlayback == mg_handle_timeline_playback

\* A call of mg_handle_timeline_playback on any list of segments
\* get_timeline_segments can return.
InitTimelinePlay ==
    /\ InitState
    /\ config = [n \in StreamNames |-> DefaultConfig(n)]
    /\ segments = {}
    /\ files = [p \in Paths |-> NoFile]
    /\ manifest = NoManifestCall
    /\ now = 0
    /\ policy = [retention_days |-> 0, quota |-> 0]
    /\ cleaner = NoCleaner
    /\ \E segs \in {l \in SegmentLists(MAX_TIMELINE_SEGMENTS) : SortedByStart(l)},
          start_time \in Times,
          io \in {"ok", "stream", "start", "malloc", "db"} :
           tl_play = TimelinePlay("called", segs, start_time, io, 0, -1, 0)

\* mg_handle_timeline_manifest up to the file name create_timeline_manifest
\* builds: 400 without a stream, 404 when get_timeline_segments returns
\* nothing, else the name from time(NULL) and start_time.
ManifestRequest(t, io, start_time) ==
    /\ tl_req.pc[t] = "idle"
    /\ tl_req' =
           IF io = "stream"
           THEN [tl_req EXCEPT !.status[t] = 400, !.path[t] = NoManifestPath]
           ELSE IF io = "empty"
           THEN [tl_req EXCEPT !.status[t] = 404, !.path[t] = NoManifestPath]
           ELSE [tl_req EXCEPT !.pc[t] = "named", !.status[t] = 0,
                               !.path[t] = ManifestFilename(now, start_time)]
    /\ UNCHANGED <<engineVars, catalogVars, lockVars, playVars, storeVars,
                   retentionVars, captureVars, manifest, tl_play>>

\* create_timeline_manifest: pthread_mutex_lock(&manifest_mutex) and
\* fopen(manifest_filename, "w"), which truncates the file at the path; a
\* failing fopen unlocks and the handler replies 500.
ManifestOpen(t, ok) ==
    /\ tl_req.pc[t] = "named"
    /\ tl_req.mutex = NoOwner
    /\ tl_req' =
           IF ok
           THEN [tl_req EXCEPT !.pc[t] = "writing", !.mutex = t,
                               !.file[tl_req.path[t]] = "open"]
           ELSE [tl_req EXCEPT !.pc[t] = "idle", !.status[t] = 500]
    /\ UNCHANGED <<engineVars, catalogVars, lockVars, playVars, storeVars,
                   retentionVars, captureVars, manifest, tl_play>>

\* create_timeline_manifest: the fprintf calls, fclose and
\* pthread_mutex_unlock(&manifest_mutex).
ManifestClose(t) ==
    /\ tl_req.pc[t] = "writing"
    /\ tl_req.mutex = t
    /\ tl_req' = [tl_req EXCEPT !.pc[t] = "created", !.mutex = NoOwner,
                                !.file[tl_req.path[t]] = "written"]
    /\ UNCHANGED <<engineVars, catalogVars, lockVars, playVars, storeVars,
                   retentionVars, captureVars, manifest, tl_play>>

\* mg_http_serve_file(c, hm, manifest_path, &opts): the file is open for
\* reading and its content goes out as the connection drains.
ManifestServe(t) ==
    /\ tl_req.pc[t] = "created"
    /\ tl_req' = [tl_req EXCEPT !.pc[t] = "serving", !.status[t] = 200]
    /\ UNCHANGED <<engineVars, catalogVars, lockVars, playVars, storeVars,
                   retentionVars, captureVars, manifest, tl_play>>

\* The last byte of the manifest has been sent.
ManifestServed(t) ==
    /\ tl_req.pc[t] = "serving"
    /\ tl_req' = [tl_req EXCEPT !.pc[t] = "idle"]
    /\ UNCHANGED <<engineVars, catalogVars, lockVars, playVars, storeVars,
                   retentionVars, captureVars, manifest, tl_play>>

(* ---------------------------- capture worker --------------------------- *)
(* The per-stream Capture Worker: Idle, Connecting, Backoff, Streaming,     *)
(* Rotating, Stopping. The worker's clock ticks while it waits in Backoff   *)
(* and while it streams; elapsed is the age of the segment an armed worker  *)
(* has open and span the age at which the latest segment was closed.        *)

WorkerOutside == <<engineVars, catalogVars, lockVars, playVars, storeVars,
                   timelineVars, retentionVars, ringVars, recorderVars>>

\* (mutant) a backoff that grows by one tick per failure.
NextBackoffLinear(b) == IF b + 1 > BackoffCap THEN BackoffCap ELSE b + 1

\* The interval after a failure: exponential with a cap.
NextBackoff(b) == IF 2 * b > BackoffCap THEN BackoffCap ELSE 2 * b

\* (mutant) a rotation due at any frame once segment_duration has elapsed.
CutDueAnyFrame(w, key) == w.armed /\ w.elapsed >= w.segment_duration

\* Rotation is requested at segment_duration and the cut occurs on the next
\* keyframe.
CutDue(w, key) == w.armed /\ key /\ w.elapsed >= w.segment_duration

\* The hard ceiling of 2 x segment_duration.
Ceiling(w) == 2 * w.segment_duration

\* The worker with its writer detached: the open segment, if any, closed at
\* its age.
Detached(w) ==
    [w EXCEPT !.armed = FALSE, !.elapsed = 0,
              !.span = IF w.armed THEN w.elapsed ELSE w.span]

\* The worker entering Backoff: it waits the current interval and the next
\* failure waits the next one.
EnterBackoff(w, event) ==
    [Detached(w) EXCEPT !.state = "Backoff", !.remaining = w.backoff,
                        !.backoff = NextBackoff(w.backoff), !.event = event]

\* Idle: enable -> Connecting, with the stream's segment_duration.
Enable(d) ==
    /\ worker.state = "Idle"
    /\ worker' = [NoWorker EXCEPT !.state = "Connecting",
                                  !.segment_duration = d, !.event = "enable"]
    /\ UNCHANGED WorkerOutside

\* Connecting: success -> Streaming. A stream recorded continuously arms
\* its writer at once, a detection-triggered one waits for a trigger.
ConnectOk(continuous) ==
    /\ worker.state = "Connecting"
    /\ worker' = [worker EXCEPT !.state = "Streaming", !.armed = continuous,
                                !.elapsed = 0, !.event = "connected"]
    /\ UNCHANGED WorkerOutside

\* Connecting: fail -> Backoff.
ConnectFail ==
    /\ worker.state = "Connecting"
    /\ worker' = EnterBackoff(worker, "connect_failed")
    /\ UNCHANGED WorkerOutside

\* Backoff: a tick of the wait.
BackoffWait ==
    /\ worker.state = "Backoff"
    /\ worker.remaining > 0
    /\ worker' = [worker EXCEPT !.remaining = @ - 1, !.event = "wait"]
    /\ UNCHANGED WorkerOutside

\* Backoff: expire -> Connecting.
BackoffExpire ==
    /\ worker.state = "Backoff"
    /\ worker.remaining = 0
    /\ worker' = [worker EXCEPT !.state = "Connecting", !.event = "expire"]
    /\ UNCHANGED WorkerOutside

\* Streaming: a tick of the clock; an armed worker does not let its segment
\* age past the ceiling.
StreamTick ==
    /\ worker.state = "Streaming"
    /\ worker.armed
    /\ worker.elapsed < Ceiling(worker)
    /\ worker' = [worker EXCEPT !.elapsed = @ + 1, !.event = "tick"]
    /\ UNCHANGED WorkerOutside

\* Streaming: a frame read; the backoff resets, and the segment is cut when
\* a rotation is due.
ReadFrame(key) ==
    /\ worker.state = "Streaming"
    /\ worker' =
           IF CutDue(worker, key)
           THEN [Detached(worker) EXCEPT !.state = "Rotating",
                                         !.backoff = BackoffInitial,
                                         !.event = IF key THEN "keyframe"
                                                   ELSE "frame"]
           ELSE [worker EXCEPT !.backoff = BackoffInitial,
                               !.event = IF key THEN "keyframe" ELSE "frame"]
    /\ UNCHANGED WorkerOutside

\* Streaming: the ceiling forces a cut without a keyframe.
ForceCut ==
    /\ worker.state = "Streaming"
    /\ worker.armed
    /\ worker.elapsed >= Ceiling(worker)
    /\ worker' = [Detached(worker) EXCEPT !.state = "Rotating",
                                          !.event = "ceiling"]
    /\ UNCHANGED WorkerOutside

\* Rotating: open the next segment and arm the new writer -> Streaming.
Rotate ==
    /\ worker.state = "Rotating"
    /\ worker' = [worker EXCEPT !.state = "Streaming", !.armed = TRUE,
                                !.elapsed = 0, !.event = "rotated"]
    /\ UNCHANGED WorkerOutside

\* Streaming, detection-triggered: an external trigger arms the worker.
Arm ==
    /\ worker.state = "Streaming"
    /\ ~worker.armed
    /\ worker' = [worker EXCEPT !.armed = TRUE, !.elapsed = 0,
                                !.event = "armed"]
    /\ UNCHANGED WorkerOutside

\* Streaming, detection-triggered: no detection for post_detection_buffer
\* seconds disarms the worker and closes its segment.
Disarm ==
    /\ worker.state = "Streaming"
    /\ worker.armed
    /\ worker' = [Detached(worker) EXCEPT !.event = "disarmed"]
    /\ UNCHANGED WorkerOutside

\* Streaming: source closed, or a burst of decode errors -> Backoff.
SourceClosed ==
    /\ worker.state = "Streaming"
    /\ worker' = EnterBackoff(worker, "source_closed")
    /\ UNCHANGED WorkerOutside

\* disable -> Stopping: the writer is detached and closed.
Disable ==
    /\ worker.state \in {"Connecting", "Backoff", "Streaming", "Rotating"}
    /\ worker' = [Detached(worker) EXCEPT !.state = "Stopping",
                                          !.event = "disable"]
    /\ UNCHANGED WorkerOutside

\* Stopping -> Idle.
Stopped ==
    /\ worker.state = "Stopping"
    /\ worker' = [worker EXCEPT !.state = "Idle", !.event = "stopped"]
    /\ UNCHANGED WorkerOutside

(* ------------------------------ retention ------------------------------ *)
(* The Retention Cleaner (motion_storage_manager: cleanup_old_recordings,   *)
(* cleanup_by_quota, cleanup_orphaned_recordings) and the admin deletion.   *)
(* One pass is an age pass, a quota pass and an orphan pass; a deletion is  *)
(* an unlink of the file followed by the deletion of the row, and the pass  *)
(* can be interrupted between any two of its steps.                         *)

\* What a retention step leaves alone.
RetentionOutside == <<engineVars, catalogVars, lockVars, playVars, timelineVars,
                      captureVars>>

\* total_size_bytes(): the sum of size_bytes over the rows.
RECURSIVE TotalSize(_)
TotalSize(rows) ==
    IF rows = {} THEN 0
    ELSE LET r == CHOOSE x \in rows : TRUE
         IN  r.size_bytes + TotalSize(rows \ {r})

CompleteRows(rows) == {r \in rows : r.is_complete = 1}

\* The oldest row of a set: smallest start_time, then smallest id.
Oldest(rows) ==
    CHOOSE r \in rows : \A q \in rows :
        r.start_time < q.start_time
            \/ (r.start_time = q.start_time /\ r.id <= q.id)

\* The rows the age pass selects: complete, end_time < now - retention_days;
\* none when retention_days is 0 (age retention disabled).
Expired(rows) ==
    IF policy.retention_days = 0 THEN {}
    ELSE {r \in CompleteRows(rows) :
             r.end_time # SqlNull /\ r.end_time < now - policy.retention_days}

\* (mutant) a quota pass that stops one byte above the quota.
OverQuotaByOne(rows) ==
    IF policy.quota > 0 /\ TotalSize(rows) > policy.quota + 1
    THEN CompleteRows(rows) ELSE {}

\* The rows the quota pass selects from: complete rows, while the total is
\* above a quota that is not 0 (unlimited).
OverQuota(rows) ==
    IF policy.quota > 0 /\ TotalSize(rows) > policy.quota
    THEN CompleteRows(rows) ELSE {}

\* Complete rows whose file is missing.
OrphanRows == {r \in CompleteRows(segments) : files[r.file_path].kind = "none"}

\* Files whose path is in no row.
StrayFiles ==
    {p \in Paths : files[p].kind # "none"
                    /\ ~\E r \in segments : r.file_path = p}

\* The pass begins.
CleanerStart ==
    /\ cleaner.pc = "idle" /\ cleaner.admin = 0
    /\ cleaner' = [cleaner EXCEPT
                      !.pc = "age", !.skipped = {}, !.failed = FALSE,
                      !.done = FALSE, !.before = <<segments, files>>,
                      !.prev = IF ~cleaner.done THEN "none"
                               ELSE IF cleaner.failed THEN "failed" ELSE "clean"]
    /\ UNCHANGED <<segments, files, now, policy, RetentionOutside>>

\* (mutant) the deletion that removes the row before it unlinks the file.
UnlinkAfterRow(r, ok) ==
    /\ segments' = segments \ {r}
    /\ files' = files
    /\ cleaner' = [cleaner EXCEPT !.held = 0]

\* The first half of a deletion: unlink(r.file_path). When it succeeds or
\* the file is already missing the cleaner goes on to the row; when it fails
\* the recording is skipped for this pass.
UnlinkFirst(r, ok) ==
    /\ segments' = segments
    /\ IF files[r.file_path].kind = "none"
       THEN /\ files' = files
            /\ cleaner' = [cleaner EXCEPT !.held = r.id]
       ELSE IF ok
       THEN /\ files' = [files EXCEPT ![r.file_path] = NoFile]
            /\ cleaner' = [cleaner EXCEPT !.held = r.id]
       ELSE /\ files' = files
            /\ cleaner' = [cleaner EXCEPT !.skipped = @ \cup {r.id},
                                          !.failed = TRUE]

\* The age pass takes its next recording.
AgeUnlink(ok) ==
    LET todo == {r \in Expired(segments) : r.id \notin cleaner.skipped}
    IN  /\ cleaner.pc = "age" /\ cleaner.held = 0 /\ todo # {}
        /\ UnlinkFirst(Oldest(todo), ok)
        /\ UNCHANGED <<now, policy, RetentionOutside>>

\* The quota pass takes its next recording, oldest first.
QuotaUnlink(ok) ==
    LET todo == {r \in OverQuota(segments) : r.id \notin cleaner.skipped}
    IN  /\ cleaner.pc = "quota" /\ cleaner.held = 0 /\ todo # {}
        /\ UnlinkFirst(Oldest(todo), ok)
        /\ UNCHANGED <<now, policy, RetentionOutside>>

\* The second half of a deletion: delete_segment(id) of the recording whose
\* file is gone.
CleanerDelete ==
    /\ cleaner.pc \in {"age", "quota"} /\ cleaner.held # 0
    /\ segments' = {r \in segments : r.id # cleaner.held}
    /\ cleaner' = [cleaner EXCEPT !.held = 0]
    /\ UNCHANGED <<files, now, policy, RetentionOutside>>

\* (mutant) an age pass that may stop while recordings are left.
AgeDoneAnyTime ==
    /\ cleaner.pc = "age" /\ cleaner.held = 0
    /\ cleaner' = [cleaner EXCEPT !.pc = "quota"]
    /\ UNCHANGED <<segments, files, now, policy, RetentionOutside>>

\* The age pass has no recording left: the quota pass begins.
AgeDone ==
    /\ cleaner.pc = "age" /\ cleaner.held = 0
    /\ {r \in Expired(segments) : r.id \notin cleaner.skipped} = {}
    /\ cleaner' = [cleaner EXCEPT !.pc = "quota"]
    /\ UNCHANGED <<segments, files, now, policy, RetentionOutside>>

\* The quota pass has no recording left: the orphan pass begins.
QuotaDone ==
    /\ cleaner.pc = "quota" /\ cleaner.held = 0
    /\ {r \in OverQuota(segments) : r.id \notin cleaner.skipped} = {}
    /\ cleaner' = [cleaner EXCEPT !.pc = "orphan"]
    /\ UNCHANGED <<segments, files, now, policy, RetentionOutside>>

\* The orphan pass deletes the row of a complete recording whose file is
\* missing.
OrphanRow ==
    /\ cleaner.pc = "orphan" /\ OrphanRows # {}
    /\ segments' = segments \ {Oldest(OrphanRows)}
    /\ UNCHANGED <<files, now, policy, cleaner, RetentionOutside>>

\* The orphan pass unlinks a file whose path is in no row.
OrphanFile ==
    /\ cleaner.pc = "orphan" /\ OrphanRows = {} /\ StrayFiles # {}
    /\ files' = [files EXCEPT ![Min(StrayFiles)] = NoFile]
    /\ UNCHANGED <<segments, now, policy, cleaner, RetentionOutside>>

\* The orphan pass has nothing left: the pass is over.
OrphanDone ==
    /\ cleaner.pc = "orphan" /\ OrphanRows = {} /\ StrayFiles = {}
    /\ cleaner' = [cleaner EXCEPT !.pc = "idle", !.done = TRUE]
    /\ UNCHANGED <<segments, files, now, policy, RetentionOutside>>

\* The admin deletion of a recording: the file first.
AdminUnlink(id, ok) ==
    /\ cleaner.pc = "idle" /\ cleaner.admin = 0
    /\ \E r \in segments :
           /\ r.id = id
           /\ IF files[r.file_path].kind = "none" \/ ok
              THEN /\ files' = [files EXCEPT ![r.file_path] = NoFile]
                   /\ cleaner' = [cleaner EXCEPT !.admin = id, !.done = FALSE]
              ELSE /\ files' = files
                   /\ cleaner' = [cleaner EXCEPT !.done = FALSE]
    /\ UNCHANGED <<segments, now, policy, RetentionOutside>>

\* The admin deletion of a recording: the row, once the file is gone.
AdminDelete ==
    /\ cleaner.admin # 0
    /\ segments' = {r \in segments : r.id # cleaner.admin}
    /\ cleaner' = [cleaner EXCEPT !.admin = 0]
    /\ UNCHANGED <<files, now, policy, RetentionOutside>>

\* The process is stopped in the middle of a pass or of an admin deletion,
\* and started again.
Interrupt ==
    /\ cleaner.pc # "idle" \/ cleaner.admin # 0
    /\ cleaner' = NoCleaner
    /\ UNCHANGED <<segments, files, now, policy, RetentionOutside>>

\* What the table and the directory can hold of recording i when a pass
\* begins: nothing; a complete recording that ended at a time e, with its
\* file or (removed by hand) without; a file left behind without a row; a
\* recording in progress, with its row and its .part file.
StoreOptions(i) ==
    {[row |-> {}, file |-> NoFile], [row |-> {}, file |-> FinalFile(1)],
     [row |-> {SegRow(i, i, 0, SqlNull, 0, 0)},
      file |-> [kind |-> "part", size |-> 1]]}
    \cup {[row |-> {SegRow(i, i, IF e > 0 THEN e - 1 ELSE 0, e, 1, 1)},
           file |-> f] : e \in Times, f \in {FinalFile(1), NoFile}}

\* The recordings of the table and the directory at start-up.
StoredPaths == {i \in Paths : i <= MaxStored}

\* Start-up of the Retention Cleaner over any table and directory, under
\* any policy, at the latest time.
InitRetention ==
    /\ InitState
    /\ config = [n \in StreamNames |-> DefaultConfig(n)]
    /\ manifest = NoManifestCall
    /\ tl_play = NoTimelinePlay
    /\ cleaner = NoCleaner
    /\ now = MaxTime
    /\ \E days \in 0 .. MaxTime, quota \in 0 .. MaxQuota :
           policy = [retention_days |-> days, quota |-> quota]
    /\ \E store \in [StoredPaths -> UNION {StoreOptions(i) : i \in StoredPaths}] :
           /\ \A i \in StoredPaths : store[i] \in StoreOptions(i)
           /\ segments = UNION {store[i].row : i \in StoredPaths}
           /\ files = [i \in Paths |->
                         IF i \in StoredPaths THEN store[i].file ELSE NoFile]

(* ----------------------------- ring buffer ----------------------------- *)
(* The Ring Buffer Pool: a fixed-capacity FIFO of frames per stream, kept   *)
(* as an array with the index of the oldest frame and the frame count.      *)

\* What a ring buffer step leaves alone.
RingOutside == <<engineVars, catalogVars, lockVars, playVars, storeVars,
                 timelineVars, retentionVars, recorderVars, worker>>

\* (mutant) the frames of the ring read from the start of the array.
RingFramesFromZero(r) == [i \in 1 .. r.count |-> r.buf[(i - 1) % RingCapacity]]

\* The frames of the ring, oldest first.
RingFrames(r) == [i \in 1 .. r.count |-> r.buf[(r.head + i - 1) % RingCapacity]]

\* push(frame): drops the oldest frame when the ring is full.
RingPushed(r, frame) ==
    IF r.count = RingCapacity
    THEN [r EXCEPT !.buf[r.head] = frame,
                   !.head = (r.head + 1) % RingCapacity]
    ELSE [r EXCEPT !.buf[(r.head + r.count) % RingCapacity] = frame,
                   !.count = r.count + 1]

\* The index of the oldest keyframe of a sequence of frames, 0 when it has
\* none.
FirstKeyframe(frames) ==
    IF \E i \in 1 .. Len(frames) : frames[i].key
    THEN Min({i \in 1 .. Len(frames) : frames[i].key})
    ELSE 0

\* The capture worker pushes a frame; presentation timestamps of a stream
\* do not decrease (I5).
push(frame) ==
    /\ Len(pushed) < MaxPushes
    /\ pushed # <<>> => frame.ts >= pushed[Len(pushed)].ts
    /\ ring' = RingPushed(ring, frame)
    /\ pushed' = Append(pushed, frame)
    /\ ring_out' = NoDrain
    /\ UNCHANGED RingOutside

\* drain_keyframe_aligned(): the frames from the oldest keyframe on, which
\* leave the ring with the frames before them; nothing when no keyframe is
\* buffered.
drain_keyframe_aligned ==
    LET frames == RingFrames(ring)
        first  == FirstKeyframe(frames)
    IN  /\ ring_out.pc = "none"
        /\ IF first = 0
           THEN /\ ring_out' = [pc |-> "done", frames |-> <<>>, of |-> pushed]
                /\ UNCHANGED <<ring, pushed>>
           ELSE /\ ring_out' = [pc |-> "done",
                                frames |-> SubSeq(frames, first, Len(frames)),
                                of |-> pushed]
                /\ ring' = [ring EXCEPT !.head = 0, !.count = 0]
                /\ pushed' = <<>>
        /\ UNCHANGED RingOutside

(* ---------------------------- segment store --------------------------- *)
(* The capture worker's writer: open_segment inserts the row, the file is   *)
(* written under the suffix .part, on clean close it is fsynced and renamed *)
(* out of .part and close_segment then completes the row. The process can   *)
(* crash between any two steps; on boot crash-finalize takes every .part    *)
(* file.                                                                    *)

\* What a step of the writer leaves alone.
RecorderOutside == <<engineVars, catalogVars, lockVars, playVars, timelineVars,
                     policy, cleaner, ringVars, worker>>

\* (mutant) an update that records the end time and the size and leaves the
\* row incomplete.
SegmentEndOnly(r, end, size, error) ==
    [r EXCEPT !.end_time = end, !.size_bytes = size, !.error = error]

\* The row close_segment leaves: complete = 1 with end time and size.
SegmentClosed(r, end, size, error) ==
    [r EXCEPT !.is_complete = 1, !.end_time = end, !.size_bytes = size,
              !.error = error]

\* close_segment(path, end, size_bytes): update the matching row.
CloseSegment(rows, path, end, size, error) ==
    {IF r.file_path = path /\ r.is_complete = 0
     THEN SegmentClosed(r, end, size, error) ELSE r : r \in rows}

\* The clock advances.
Tick ==
    /\ now < MaxTime
    /\ now' = now + 1
    /\ UNCHANGED <<segments, files, writer, next_id, RecorderOutside>>

\* open_segment(stream, path, start, ...): insert a row with complete = 0
\* and end_time = NULL; the path column is UNIQUE. The path of a segment
\* ends in <start_epoch>-<segment_id>.
open_segment(path) ==
    /\ writer.pc = "idle"
    /\ next_id <= MaxStored /\ next_id \in RecordingIds
    /\ path = next_id
    /\ ~\E r \in segments : r.file_path = path
    /\ files[path].kind = "none"
    /\ segments' = segments \cup {SegRow(next_id, path, now, SqlNull, 0, 0)}
    /\ next_id' = next_id + 1
    /\ writer' = [pc |-> "inserted", path |-> path, start |-> now,
                  finalized |-> FALSE]
    /\ UNCHANGED <<files, now, RecorderOutside>>

\* The writer creates the file under the suffix .part.
CreatePart ==
    /\ writer.pc = "inserted"
    /\ files' = [files EXCEPT ![writer.path] = [kind |-> "part", size |-> 0]]
    /\ writer' = [writer EXCEPT !.pc = "writing"]
    /\ UNCHANGED <<segments, now, next_id, RecorderOutside>>

\* The writer writes a frame.
WriteFrame ==
    /\ writer.pc = "writing"
    /\ files[writer.path].size < MaxFileSize
    /\ files' = [files EXCEPT ![writer.path].size = @ + 1]
    /\ UNCHANGED <<segments, now, writer, next_id, RecorderOutside>>

\* Clean close, first half: the file is fsynced and renamed out of .part.
RenameFinal ==
    /\ writer.pc = "writing"
    /\ files[writer.path].size > 0
    /\ files' = [files EXCEPT ![writer.path].kind = "final"]
    /\ writer' = [writer EXCEPT !.pc = "renamed"]
    /\ UNCHANGED <<segments, now, next_id, RecorderOutside>>

\* Clean close, second half: close_segment(path, end, size_bytes).
close_segment ==
    /\ writer.pc = "renamed"
    /\ segments' = CloseSegment(segments, writer.path, now,
                                files[writer.path].size, FALSE)
    /\ writer' = NoWriter
    /\ UNCHANGED <<files, now, next_id, RecorderOutside>>

\* The process crashes and boots again.
Crash ==
    /\ writer.pc # "boot"
    /\ writer' = [NoWriter EXCEPT !.pc = "boot"]
    /\ UNCHANGED <<segments, files, now, next_id, RecorderOutside>>

\* crash-finalize of a .part file found on boot: truncate to the last valid
\* keyframe group, rename to the final name and update the row; when that
\* fails, move the file aside to .corrupt and mark the row complete with
\* size 0 and the error flag.
CrashFinalize(path, ok, size, end) ==
    /\ writer.pc = "boot"
    /\ files[path].kind = "part"
    /\ \A r \in segments : r.file_path = path => r.start_time <= end
    /\ IF ok /\ 0 < size /\ size <= files[path].size
       THEN /\ files' = [files EXCEPT ![path] = FinalFile(size)]
            /\ segments' = CloseSegment(segments, path, end, size, FALSE)
       ELSE /\ files' = [files EXCEPT ![path].kind = "corrupt"]
            /\ segments' = CloseSegment(segments, path, end, 0, TRUE)
    /\ UNCHANGED <<now, writer, next_id, RecorderOutside>>

\* The boot scan has taken every .part file.
BootDone ==
    /\ writer.pc = "boot"
    /\ \A p \in Paths : files[p].kind # "part"
    /\ writer' = [NoWriter EXCEPT !.finalized = TRUE]
    /\ UNCHANGED <<segments, files, now, next_id, RecorderOutside>>

(* --------------------------- specifications --------------------------- *)

\* The registry driven by sequential calls.
Next ==
    \/ Register
    \/ Unregister
    \/ CloseAll

Spec == Init /\ [][Next]_vars

\* The registry called with every argument its functions admit.
NextRegistry ==
    \/ RegisterAnyName
    \/ Unregister
    \/ CloseAll

SpecRegistry == Init /\ [][NextRegistry]_vars

\* The registry with a capture worker filling the pre-roll buffers.
NextPreroll ==
    \/ Register
    \/ Unregister
    \/ CloseAll
    \/ Push

SpecPreroll == Init /\ [][NextPreroll]_vars

\* The registry with recording threads owning recording contexts.
NextShutdown ==
    \/ Register
    \/ Unregister
    \/ CloseAll
    \/ Start

SpecShutdown == Init /\ [][NextShutdown]_vars

\* Two threads calling the registry at the same time.
NextThreads ==
    \/ \E t \in Threads, w \in Writers : RegScan(t, WriterStream(w), w)
    \/ \E t \in Threads : RegClose(t)
    \/ \E t \in Threads : RegWrite(t)
    \/ \E t \in Threads, n \in StreamNames : UnregScan(t, n)
    \/ \E t \in Threads : UnregClear(t)
    \/ \E t \in Threads, n \in StreamNames : Lookup(t, n)
    \/ \E t \in Threads : Release(t)
    \/ \E t \in Threads : CloseAllCollect(t)
    \/ \E t \in Threads : CloseAllClose(t)

SpecThreads == Init /\ [][NextThreads]_vars

\* The registry started under every configuration of cam1.
SpecCapacity == InitCapacity /\ [][Next]_vars

\* The stream catalog driven by sequential calls (every call holds the
\* database mutex from its first statement to its last).
NextCatalog ==
    \/ AddStream
    \/ UpdateStream
    \/ SoftDeleteStream
    \/ HardDeleteStream
    \/ GetStream
    \/ ListStreams
    \/ CountStreams

SpecCatalog == Init /\ [][NextCatalog]_vars

\* The catalog driven by upserts, soft and hard deletes, and listings.
NextUpsert ==
    \/ AddStream
    \/ SoftDeleteStream
    \/ HardDeleteStream
    \/ ListStreams

SpecUpsert == Init /\ [][NextUpsert]_vars

\* Two threads calling the catalog at the same time.
NextCatalogThreads ==
    \/ \E t \in Threads, stream \in Configs \cup {NoConfig}, io \in AddFaults :
           DbEnter(t, "add", stream.name, stream, io)
    \/ \E t \in Threads, name \in CatalogNames, stream \in Configs \cup {NoConfig},
          io \in Faults : DbEnter(t, "update", name, stream, io)
    \/ \E t \in Threads, name \in CatalogNames, io \in Faults :
           DbEnter(t, "soft_delete", name, NoConfig, io)
    \/ \E t \in Threads, name \in CatalogNames, io \in Faults :
           DbEnter(t, "hard_delete", name, NoConfig, io)
    \/ \E t \in Threads, name \in CatalogNames, io \in Faults :
           DbEnter(t, "get", name, NoConfig, io)
    \/ \E t \in Threads : AddCheck(t)
    \/ \E t \in Threads : AddWrite(t)
    \/ \E t \in Threads : UpdateWrite(t)
    \/ \E t \in Threads : DeleteWrite(t)
    \/ \E t \in Threads : GetRead(t)

SpecCatalogThreads == Init /\ [][NextCatalogThreads]_vars

\* Start-up over a recordings table and a recordings directory that have
\* drifted apart: the last recording id has no row (it was deleted, or never
\* existed), the others have one; the files of the even ids are gone (removed
\* by hand or by a clean-up), the file of the last id, when odd, was left
\* behind.
InitPlayback ==
    /\ InitState
    /\ config = [n \in StreamNames |-> DefaultConfig(n)]
    /\ manifest = NoManifestCall
    /\ tl_play = NoTimelinePlay
    /\ now = 0
    /\ policy = [retention_days |-> 0, quota |-> 0]
    /\ cleaner = NoCleaner
    /\ segments = {SegRow(i, i, 1, 2, 1, 1) : i \in 1 .. (MaxRecordingId - 1)}
    /\ files = [p \in Paths |-> IF p % 2 = 1 THEN FinalFile(1) ELSE NoFile]

\* Playback requests handled by two threads, their tasks run by the pool.
NextPlayback ==
    \/ \E t \in Threads, id \in {0} \cup RecordingIds : PlayCheck(t, id)
    \/ \E t \in Threads : PlayMark(t)
    \/ \E t \in Threads, io \in PlayFaults : PlaySubmit(t, io)
    \/ \E task \in BagToSet(play_tasks), closing \in BOOLEAN, io \in {"ok", "db"} :
           TaskRun(task, closing, io)
    \/ \E task \in BagToSet(play_tasks) : TaskReturn(task)

SpecPlayback == InitPlayback /\ [][NextPlayback]_vars

\* Manifests built for every list of segments.
NextTimeline == CreateManifest

SpecTimeline == InitTimeline /\ [][NextTimeline]_vars

\* Timeline playback requests for every list of segments.
NextTimelinePlay == TimelinePlayback

SpecTimelinePlay == InitTimelinePlay /\ [][NextTimelinePlay]_vars

\* A Capture Worker through enables, failures, frames and rotations.
NextWorker ==
    \/ \E d \in 1 .. MaxSegmentDuration : Enable(d)
    \/ \E continuous \in BOOLEAN : ConnectOk(continuous)
    \/ ConnectFail
    \/ BackoffWait
    \/ BackoffExpire
    \/ StreamTick
    \/ \E key \in BOOLEAN : ReadFrame(key)
    \/ ForceCut
    \/ Rotate
    \/ Arm
    \/ Disarm
    \/ SourceClosed
    \/ Disable
    \/ Stopped

SpecWorker == Init /\ [][NextWorker]_vars

\* The timer of the backoff runs: a wait that can tick ticks and a wait
\* that has expired ends.
SpecWorkerFair ==
    SpecWorker /\ WF_vars(BackoffWait) /\ WF_vars(BackoffExpire)

\* Concurrent manifest requests as the seconds pass.
NextManifestRequests ==
    \/ \E t \in Threads, io \in {"ok", "stream", "empty"},
          start_time \in ManifestStarts : ManifestRequest(t, io, start_time)
    \/ \E t \in Threads, ok \in BOOLEAN : ManifestOpen(t, ok)
    \/ \E t \in Threads : ManifestClose(t)
    \/ \E t \in Threads : ManifestServe(t)
    \/ \E t \in Threads : ManifestServed(t)
    \/ Tick

SpecManifestRequests == Init /\ [][NextManifestRequests]_vars

\* Retention passes and admin deletions, with failing unlinks and
\* interruptions.
NextRetention ==
    \/ CleanerStart
    \/ \E ok \in BOOLEAN : AgeUnlink(ok)
    \/ \E ok \in BOOLEAN : QuotaUnlink(ok)
    \/ CleanerDelete
    \/ AgeDone
    \/ QuotaDone
    \/ OrphanRow
    \/ OrphanFile
    \/ OrphanDone
    \/ \E id \in RecordingIds, ok \in BOOLEAN : AdminUnlink(id, ok)
    \/ AdminDelete
    \/ Interrupt

SpecRetention == InitRetention /\ [][NextRetention]_vars

\* A capture worker pushing frames and a writer draining the ring.
NextRing ==
    \/ \E frame \in Frames : push(frame)
    \/ drain_keyframe_aligned

SpecRing == Init /\ [][NextRing]_vars

\* A capture worker opening, writing and closing segments, with crashes.
NextRecorder ==
    \/ Tick
    \/ \E path \in Paths : open_segment(path)
    \/ CreatePart
    \/ WriteFrame
    \/ RenameFinal
    \/ close_segment
    \/ Crash
    \/ \E path \in Paths, ok \in BOOLEAN, size \in 1 .. MaxFileSize,
          end \in Times : end <= now /\ CrashFinalize(path, ok, size, end)
    \/ BootDone

SpecRecorder == Init /\ [][NextRecorder]_vars

(* ------------------------------- claims -------------------------------- *)

\* Slots that hold a writer under the name.
HeldSlots(ws, ns, name) == {i \in Slots : ws[i] # NULL /\ ns[i] = name}

\* C1 (as stated): after any sequence of register / unregister calls at most
\* one registry slot holds a writer for any given stream name.
C1_AtMostOneSlotPerStream ==
    \A n \in StreamNames :
        Cardinality(HeldSlots(mp4_writers, mp4_writer_stream_names, n)) <= 1

\* Two arms in a row of the same stream with two different writers, both
\* returning 0: `last` is the first call, last' the second.
TwoArms ==
    /\ last.op = "register" /\ last.ret = 0
    /\ last'.op = "register" /\ last'.ret = 0
    /\ last'.name = last.name
    /\ last'.writer # last.writer

C3_DisarmRemovesEntry ==
    [][(last'.op = "unregister" /\ last'.name \in StreamNames) =>
          /\ GetWriter(mp4_writers', mp4_writer_stream_names', last'.name) = NULL
          /\ closed' = closed
          /\ \A i \in Slots :
                 mp4_writer_stream_names[i] # last'.name =>
                     /\ mp4_writers'[i] = mp4_writers[i]
                     /\ mp4_writer_stream_names'[i] = mp4_writer_stream_names[i]]_vars

\* C4 (as stated): while a thread is using the writer it looked up, no
\* other thread's call applies mp4_writer_close to that writer.
C4_NoCloseWhileInUse ==
    [][\A t \in Threads :
          (pc[t] = "using" /\ pc'[t] = "using") =>
              closed'[local[t].writer] = closed[local[t].writer]]_vars

\* Both threads have made exactly one call, a successful register, for two
\* different streams.
TwoRegistersDone ==
    /\ \A t \in Threads :
          /\ pc[t] = "idle" /\ local[t].calls = 1
          /\ local[t].op = "register" /\ local[t].ret = 0
    /\ local["t1"].name # local["t2"].name

\* C5 (as stated): two concurrent registers of two different streams leave
\* both streams registered, in distinct slots, none lost or overwritten.
C5_ConcurrentRegistersBothKept ==
    TwoRegistersDone =>
        \A t \in Threads :
            get_mp4_writer_for_stream(local[t].name) = local[t].writer

\* C6 (as stated): whenever register (replacement path) or close_all calls
\* mp4_writer_close on a writer, no registry slot holds that writer.
C6_NoCloseWhileReferenced ==
    [][last'.op \in {"register", "close_all"} =>
          \A w \in Writers :
              closed'[w] # closed[w] =>
                  \A i \in Slots : mp4_writers'[i] # w]_vars

\* C7 (as stated): mp4_writer_close is invoked at most once on each writer.
C7_ClosedAtMostOnce == \A w \in Writers : closed[w] <= 1

C9_ShutdownMarksSegmentComplete ==
    [][last'.op = "close_all" =>
          \A i \in SlotsToClose(mp4_writers, mp4_writer_stream_names) :
              HasOutputPath(mp4_writers[i]) =>
                  /\ recordings'[mp4_writers[i]].is_complete
                  /\ recordings'[mp4_writers[i]].end_time # NULL]_vars

\* The stream has a pre-roll buffer whose first buffered frame is a keyframe.
HasKeyframeFirstBuffer(fb, name) ==
    \E j \in Slots : /\ fb[j].frames /\ fb[j].stream = name
                     /\ Len(fb[j].q) > 0 /\ Head(fb[j].q)

\* C10 (as stated): every successful arm of a stream whose buffer starts
\* with a keyframe flushes the buffer into the newly armed writer.
C10_ArmFlushesPreroll ==
    [][(last'.op = "register" /\ last'.ret = 0
           /\ HasKeyframeFirstBuffer(frame_buffers, last'.name)) =>
          last'.flushed > 0]_vars

\* The frame buffers a step allocates.
NewBuffers == {j \in Slots : ~frame_buffers[j].frames /\ frame_buffers'[j].frames}

\* C11 (as stated): the buffer created when a stream's writer is first
\* registered has capacity min(pre_detection_buffer * fps,
\* MAX_PREBUFFER_FRAMES) for every pair of int values, and no buffer is
\* created when pre_detection_buffer is 0.
C11_FirstRegisterCapacity ==
    [][(/\ last'.op = "register" /\ last'.ret = 0
        /\ RegisterScan(mp4_writers, mp4_writer_stream_names, last'.name).kind
               = "empty") =>
          LET cfg     == config[last'.name]
              product == cfg.pre_detection_buffer * cfg.fps
          IN  /\ \A j \in NewBuffers :
                     frame_buffers'[j].capacity =
                         IF product < MAX_PREBUFFER_FRAMES THEN product
                         ELSE MAX_PREBUFFER_FRAMES
              /\ (/\ StreamExists(last'.name)
                  /\ cfg.pre_detection_buffer > 0 /\ cfg.fps > 0
                  /\ \E j \in Slots : ~frame_buffers[j].frames)
                     => NewBuffers # {}
              /\ cfg.pre_detection_buffer = 0 => NewBuffers = {}]_vars

\* Buffers allocated for the stream.
BuffersOf(fb, name) == {j \in Slots : fb[j].frames /\ fb[j].stream = name}

\* C12 (as stated): after unregister(stream) returns for a stream whose
\* buffer was allocated, no buffer remains allocated for that stream.
C12_UnregisterFreesBuffer ==
    [][(/\ last'.op = "unregister"
        /\ BuffersOf(frame_buffers, last'.name) # {}) =>
          BuffersOf(frame_buffers', last'.name) = {}]_vars

\* The step is a call of add_stream_config, without a fault, on a name that
\* has a row.
AddOnExisting ==
    /\ db_call'.op = "add" /\ ~db_call'.fault /\ db_call'.stream # NoConfig
    /\ RowsNamed(streams, db_call'.name) # {}

\* The row of the table with the name (the name has a row).
RowNamed(rows, name) == CHOOSE r \in RowsNamed(rows, name) : TRUE

\* C13 (as stated): add_stream_config on a name that already has a row,
\* enabled or disabled, replaces all fields of the row with the config,
\* returns the row's non-zero id and leaves the number of rows unchanged.
C13_UpsertReplacesExistingRow ==
    [][AddOnExisting =>
          LET old == RowNamed(streams, db_call'.name)
          IN  /\ db_call'.ret = old.id /\ db_call'.ret # 0
              /\ Cardinality(streams') = Cardinality(streams)
              /\ RowsNamed(streams', db_call'.name) =
                     {MakeRow(old.id, old.name, BindColumns(db_call'.stream))}]_vars

\* The step is a call of add_stream_config, without a fault, on a name whose
\* row is disabled.
AddOnDisabled ==
    AddOnExisting /\ RowNamed(streams, db_call'.name).cols.enabled = 0

Listed == {db_call.list[k] : k \in 1 .. Len(db_call.list)}

\* A listing without a fault that read every row of the table.
ListedAll ==
    /\ db_call.op = "list" /\ ~db_call.fault
    /\ db_call.ret = Cardinality(streams)

\* C15 (as stated): after any sequence of add_stream_config, soft and hard
\* deletes, get_all_stream_configs returns exactly the streams that were not
\* hard-deleted, each with every field equal to the value given in its last
\* upsert.
C15_ListReturnsLastUpserts ==
    ListedAll => Listed = {upserted[n] : n \in CatalogNames} \ {NoConfig}

\* The step is an add_stream_config, without a fault, that reaches the
\* INSERT for a name that has a row.
AddWouldDuplicate ==
    /\ AddOnExisting
    /\ RowNamed(streams, db_call'.name).cols.enabled # 0

\* The step is an update_stream_config, without a fault, that renames a row
\* to the name of another row.
RenameWouldDuplicate ==
    /\ db_call'.op = "update" /\ ~db_call'.fault /\ db_call'.stream # NoConfig
    /\ db_call'.stream.name # db_call'.name
    /\ RowsNamed(streams, db_call'.name) # {}
    /\ RowsNamed(streams, db_call'.stream.name) # {}

\* C16: no two rows of the streams table share a name, and an add or a
\* rename that would create a second row with an existing name returns its
\* error value (0 from add, -1 from update) and leaves the table unchanged.
C16_NamesUnique ==
    /\ [](NameUnique(streams))
    /\ [][/\ AddWouldDuplicate => (db_call'.ret = 0 /\ streams' = streams)
          /\ RenameWouldDuplicate => (db_call'.ret = -1 /\ streams' = streams)]_vars

\* A rename to the name of another row has just been refused: both rows are
\* still in the table.
C16_Witness ==
    /\ db_call.op = "update" /\ ~db_call.fault /\ db_call.ret = -1
    /\ db_call.stream # NoConfig
    /\ db_call.stream.name # db_call.name
    /\ RowsNamed(streams, db_call.name) # {}
    /\ RowsNamed(streams, db_call.stream.name) # {}

\* The step is a delete without a fault.
SoftDeleted == db_call'.op = "soft_delete" /\ ~db_call'.fault
HardDeleted == db_call'.op = "hard_delete" /\ ~db_call'.fault

\* C17: delete_stream_config(name) returns 0, keeps every row, sets enabled
\* to 0 on the row with the name and changes no other column of it and no
\* other row.
C17_SoftDeleteOnlyDisables ==
    [][SoftDeleted =>
          /\ db_call'.ret = 0
          /\ {r.id : r \in streams'} = {r.id : r \in streams}
          /\ \A r \in streams : \E r2 \in streams' :
                 /\ r2.id = r.id /\ r2.name = r.name
                 /\ \A c \in DOMAIN r.cols :
                        r2.cols[c] = IF c = "enabled" /\ r.name = db_call'.name
                                     THEN 0 ELSE r.cols[c]]_vars

\* A soft delete has just disabled a row and another row is still enabled.
C17_Witness ==
    /\ db_call.op = "soft_delete" /\ ~db_call.fault /\ db_call.changed = 1
    /\ \E r \in RowsNamed(streams, db_call.name) : r.cols.enabled = 0
    /\ \E r \in streams : r.name # db_call.name /\ r.cols.enabled = 1

\* C18: delete_stream_config_internal(name, true) on a name that has a row
\* returns 0 and removes the row: get_stream_config_by_name(name) then
\* returns -1, count_stream_configs is one less, and every other row is as
\* it was.
C18_HardDeleteRemovesRow ==
    [][(HardDeleted /\ RowsNamed(streams, db_call'.name) # {}) =>
          /\ db_call'.ret = 0
          /\ GetReturn(streams', db_call'.name, "ok") = -1
          /\ CountRows(streams') = CountRows(streams) - 1
          /\ {r \in streams' : r.name # db_call'.name}
                 = {r \in streams : r.name # db_call'.name}]_vars

\* A hard delete has just removed a row and another row is still there.
C18_Witness ==
    /\ db_call.op = "hard_delete" /\ ~db_call.fault /\ db_call.changed = 1
    /\ RowsNamed(streams, db_call.name) = {}
    /\ streams # {}

\* The step is a successful add_stream_config.
Added == db_call'.op = "add" /\ db_call'.ret # 0

\* C19: after a successful add_stream_config(config),
\* get_stream_config_by_name(config.name) returns 0 and a config equal to
\* the one passed in every field; the stored row stays as it is until the
\* next add, update (of the name or renaming to it) or delete of the name;
\* and every successful get returns the config whose stored form is the row.
C19_AddGetRoundTrip ==
    [][/\ Added =>
             /\ GetReturn(streams', db_call'.name, "ok") = 0
             /\ GetOut(streams', db_call'.name, "ok") = db_call'.stream
       /\ \A n \in CatalogNames :
             (\/ db_call'.op \in {"get", "list", "count"}
              \/ (db_call'.name # n /\ db_call'.stream.name # n)) =>
                 RowsNamed(streams', n) = RowsNamed(streams, n)
       /\ (db_call'.op = "get" /\ db_call'.ret = 0) =>
             \E r \in RowsNamed(streams, db_call'.name) :
                 /\ db_call'.out.name = r.name
                 /\ BindColumns(db_call'.out) = r.cols]_vars

\* A get has just returned the config the latest add of the name stored.
C19_Witness ==
    /\ db_call.op = "get" /\ db_call.ret = 0
    /\ db_call.out = upserted[db_call.name]
    /\ db_call.out = ConfigOn(db_call.name)

\* The error value of a catalog function.
ErrorValue(op) == IF op = "add" THEN 0 ELSE -1

\* C20 (as stated): a catalog call that meets an I/O error or a constraint
\* error returns its error value (0 from add_stream_config, -1 from update,
\* delete, get and list) and leaves the table exactly as it was.
C20_ErrorsReturnErrorValue ==
    [][/\ (db_call'.fault /\ db_call'.op \in {"add", "update", "soft_delete",
                                                "hard_delete", "get", "list"}) =>
             (db_call'.ret = ErrorValue(db_call'.op) /\ streams' = streams)
       /\ AddWouldDuplicate => (db_call'.ret = 0 /\ streams' = streams)
       /\ RenameWouldDuplicate => (db_call'.ret = -1 /\ streams' = streams)]_vars

\* Threads inside a catalog call, between its lock and its return.
InCatalogCall == {t \in Threads : db_pc[t] # "idle"}

\* The answer the first query of add_stream_config would give on the table
\* as it is now.
CheckNow(t) ==
    LET disabled == {r \in RowsNamed(streams, db_local[t].stream.name) :
                        r.cols.enabled = 0}
    IN  IF disabled = {} THEN {0} ELSE {r.id : r \in disabled}

\* C21: catalog writes are serialized through the database mutex. A thread
\* is inside a catalog call exactly while it holds the mutex, so at most one
\* thread is inside at a time and every return path has released the mutex;
\* the answer of add_stream_config's check is still true of the table when
\* the write that depends on it runs; names stay unique (two concurrent
\* upserts of a name never leave two rows); and the table changes only in a
\* step of the thread that holds the mutex, so a reader, which reads while
\* holding it, never sees a write half done.
C21_CatalogCallsSerialized ==
    /\ [](/\ \A t \in Threads : (db_pc[t] # "idle") <=> (db_mutex = t)
          /\ Cardinality(InCatalogCall) <= 1
          /\ \A t \in Threads :
                 (db_pc[t] = "checked" /\ db_local[t].io # "check_step")
                     => db_local[t].existing \in CheckNow(t)
          /\ NameUnique(streams))
    /\ [][streams' # streams =>
             \E t \in Threads : db_mutex = t /\ db_pc'[t] = "idle"
                                  /\ InCatalogCall = {t}]_vars

\* An upsert of a disabled stream has run its check, found the row, and
\* holds the mutex before its UPDATE, next to another row of the table.
C21_Witness ==
    \E t \in Threads :
        /\ db_pc[t] = "checked" /\ db_mutex = t
        /\ db_local[t].existing # 0
        /\ Cardinality(streams) = 2

\* Entries of the request-active table that are active for the id.
ActiveFor(id) ==
    {i \in ActiveEntries : g_active_requests[i].active
                            /\ g_active_requests[i].id = id}

\* Playback tasks of the id the pool holds, in the given position.
TasksAt(at, id) == CopiesIn(Task(at, id), play_tasks)

\* Handler threads that marked the id active and have not yet handed it to
\* a task or released it.
Marking(id) ==
    {t \in Threads : play_local[t].pc = "marked" /\ play_local[t].id = id}

\* C22 as stated: at most one entry of the request-active table is active
\* for a recording id, and at most one playback task of a recording id is in
\* flight (handed to the pool and not yet returned) at any instant.
C22_AtMostOneTaskInFlight ==
    \A id \in RecordingIds :
        /\ Cardinality(ActiveFor(id)) <= 1
        /\ TasksAt("queued", id) + TasksAt("released", id) <= 1

\* C22 amended: at most one entry is active for a recording id, and the id
\* is active exactly while one handler or task holds it: a handler from its
\* mark_request_active to the hand-over, a task until its
\* mark_request_inactive. At most one task of an id is before its
\* mark_request_inactive at any instant.
C22_AtMostOneHolderPerId ==
    \A id \in RecordingIds :
        /\ Cardinality(ActiveFor(id)) <= 1
        /\ Cardinality(Marking(id)) + TasksAt("queued", id)
               = Cardinality(ActiveFor(id))

\* Two starts of the same recording at once: a task of the id is queued and
\* a second request for the id has passed is_request_active before the
\* first one marked the id.
C22_Witness ==
    \E id \in RecordingIds, t \in Threads :
        /\ TasksAt("queued", id) = 1
        /\ play_local[t].pc = "checked" /\ play_local[t].id = id

\* The recording has no row, or the file its row names is not on disk.
RecordingMissing(id) ==
    \/ ~\E r \in segments : r.id = id
    \/ \E r \in segments : r.id = id /\ files[r.file_path].kind # "final"

\* C23: a playback task that reaches its lookup (its connection is open)
\* for a recording id that has no catalog row, or whose file is missing on
\* disk, replies 404, does not call mg_http_serve_file, and leaves no entry
\* of the request-active table active for the id.
C23_NotFoundReplies404 ==
    [][(play_call'.op = "task" /\ RecordingMissing(play_call'.id))
          => /\ play_call'.status = 404
             /\ ~play_call'.served
             /\ is_request_active(g_active_requests, play_call'.id)
             /\ ~is_request_active(g_active_requests', play_call'.id)]_vars

\* A task has just answered 404 for a recording whose row exists and whose
\* file is gone.
C23_Witness ==
    /\ play_call.op = "task" /\ play_call.status = 404
    /\ \E r \in segments : r.id = play_call.id /\ files[r.file_path].kind = "none"
    /\ ~is_request_active(g_active_requests, play_call.id)

\* The latest call wrote a manifest for a list of at most
\* MAX_MANIFEST_SEGMENTS segments.
ManifestWritten ==
    /\ manifest.pc = "done" /\ manifest.ret = 0
    /\ Len(manifest.segments) <= MAX_MANIFEST_SEGMENTS

\* C24 as stated: for N segments, N up to MAX_MANIFEST_SEGMENTS, the
\* manifest has one entry per segment, in segment order, each with that
\* segment's duration.
C24_OneEntryPerSegment ==
    ManifestWritten =>
        /\ Len(manifest.entries) = Len(manifest.segments)
        /\ \A i \in 1 .. Len(manifest.segments) :
               manifest.entries[i].duration = SegmentDuration(manifest.segments[i])

\* C24 amended: whatever N is, the manifest has exactly one entry, for the
\* whole timeline: its URI names the requested start time, its duration is
\* the longest duration among the first min(N, MAX_MANIFEST_SEGMENTS)
\* segments (0 when none is positive), and EXT-X-TARGETDURATION is that
\* duration plus 1.
C24_SingleEntryOfLongestDuration ==
    (manifest.pc = "done" /\ manifest.ret = 0) =>
        LET n == Min({Len(manifest.segments), MAX_MANIFEST_SEGMENTS})
            d == manifest.entries[1].duration
        IN  /\ Len(manifest.entries) = 1
            /\ manifest.entries[1].start = manifest.start_time
            /\ \A i \in 1 .. n : d >= SegmentDuration(manifest.segments[i])
            /\ d = 0 \/ \E i \in 1 .. n : d = SegmentDuration(manifest.segments[i])
            /\ d >= 0
            /\ manifest.target_duration = d + 1

\* A manifest was written for two segments of different positive durations.
C24_Witness ==
    /\ ManifestWritten
    /\ Len(manifest.segments) = 2
    /\ SegmentDuration(manifest.segments[1]) > SegmentDuration(manifest.segments[2])
    /\ SegmentDuration(manifest.segments[2]) > 0

(* ------------------------------- C25..C27 ------------------------------ *)

\* A retention pass has run to its end and no admin deletion followed it.
PassOver == cleaner.pc = "idle" /\ cleaner.done

\* C25: in every age, quota or admin deletion the file is unlinked before
\* the row is deleted: a step removes a row only when its file is not on
\* disk, no step (an interruption included) leaves a file on disk without a
\* row that was not already there, and at the end of a pass every complete
\* row that remains has its file.
C25_UnlinkBeforeRowDelete ==
    /\ [][/\ \A r \in segments \ segments' : files[r.file_path].kind = "none"
          /\ StrayFiles' \subseteq StrayFiles]_vars
    /\ [](PassOver => OrphanRows = {})

\* A deletion is between its two halves: the file of a recording was on
\* disk when the pass began, is unlinked, and the row is still there.
C25_Witness ==
    /\ cleaner.pc \in {"age", "quota"} /\ cleaner.held # 0
    /\ \E r \in segments :
           /\ r.id = cleaner.held
           /\ files[r.file_path].kind = "none"
           /\ cleaner.before[2][r.file_path].kind = "final"

\* C26 (as stated): after a retention pass with no failing unlink the total
\* is at most the quota when quota > 0, and no complete segment has an end
\* time older than now minus retention_days.
C26_QuotaAndAgeAfterPass ==
    (PassOver /\ ~cleaner.failed) =>
        /\ policy.quota > 0 => TotalSize(segments) <= policy.quota
        /\ \A r \in CompleteRows(segments) :
               ~(r.end_time < now - policy.retention_days)

\* C26 (amended): the same, the age bound holding when retention_days > 0;
\* with retention_days = 0 age retention is disabled and old segments stay.
C26_QuotaAndEnabledAgeAfterPass ==
    (PassOver /\ ~cleaner.failed) =>
        /\ policy.quota > 0 => TotalSize(segments) <= policy.quota
        /\ policy.retention_days > 0 =>
               \A r \in CompleteRows(segments) :
                   ~(r.end_time < now - policy.retention_days)

\* A pass under a quota and an age limit is over, no unlink failed, and it
\* deleted recordings.
C26_Witness ==
    /\ PassOver /\ ~cleaner.failed
    /\ policy.quota > 0 /\ policy.retention_days > 0
    /\ cleaner.before[1] # segments
    /\ CompleteRows(segments) # {}

Buffered(seq) ==
    IF Len(seq) <= RingCapacity THEN seq
    ELSE SubSeq(seq, Len(seq) - RingCapacity + 1, Len(seq))

\* C28: for any sequence of pushes, drain_keyframe_aligned returns the
\* buffered frames from the oldest keyframe still present on, in push order
\* and with non-decreasing timestamps, and the empty sequence when no
\* keyframe is buffered.
C28_DrainKeyframeAligned ==
    ring_out.pc = "done" =>
        LET b == Buffered(ring_out.of)
            out == ring_out.frames
        IN  /\ IF \E i \in 1 .. Len(b) : b[i].key
               THEN \E k \in 1 .. Len(b) :
                       /\ b[k].key
                       /\ \A i \in 1 .. (k - 1) : ~b[i].key
                       /\ out = SubSeq(b, k, Len(b))
               ELSE out = <<>>
            /\ \A i \in 1 .. (Len(out) - 1) : out[i].ts <= out[i + 1].ts

\* A drain of a ring that dropped frames, one of them a keyframe, and that
\* holds a frame before its oldest keyframe.
C28_Witness ==
    /\ ring_out.pc = "done"
    /\ Len(ring_out.of) > RingCapacity
    /\ ring_out.of[1].key
    /\ ~Buffered(ring_out.of)[1].key
    /\ Len(ring_out.frames) >= 1
    /\ ring_out.frames[1].ts > ring_out.of[1].ts

(* ------------------------------- C29, C30 ------------------------------ *)

RowIds(rows) == {r.id : r \in rows}

C30_CrashFinalizeCompletesEveryRow ==
    writer.finalized =>
        /\ \A r \in segments :
               /\ r.is_complete = 1
               /\ \/ files[r.file_path].kind = "final"
                     /\ files[r.file_path].size > 0
                  \/ r.error /\ r.size_bytes = 0
        /\ \A p \in Paths : files[p].kind # "part"

(* ------------------------------- C33..C36 ------------------------------ *)

\* C33: a request for a recording id that is already active creates no
\* second task and is never answered 503 while an entry of the table is
\* free, whatever the interleaving of two requests for the id.
C33_DuplicateNeverAnswered503 ==
    /\ (play_call.op = "handle" /\ play_call.status = 503)
           => \A i \in ActiveEntries : g_active_requests[i].active
    /\ \A id \in RecordingIds : TasksAt("queued", id) <= 1

\* The step ended a path on which the id had been marked active: a handler
\* that could not start the task, or a task that ran (connection closing,
\* recording or file not found, file served).
PathEnded(call) ==
    \/ call.op = "handle" /\ call.status = 500
    \/ call.op \in {"task", "task_closing"}

\* C34: on every path that follows mark_request_active (allocation, pool,
\* task creation or enqueue failure, closing connection, recording or file
\* not found, file served) the id is marked inactive exactly once: the
\* step that ends the path finds the id active and leaves it inactive, no
\* other step makes an id inactive, and an id no handler or queued task
\* holds is not active.
C34_ReleasedOnEveryPath ==
    /\ [][/\ PathEnded(play_call') =>
                /\ \E i \in ActiveEntries :
                       /\ g_active_requests[i].active
                       /\ g_active_requests[i].id = play_call'.id
                       /\ ~g_active_requests'[i].active
                /\ \A i \in ActiveEntries :
                       ~(g_active_requests'[i].active
                           /\ g_active_requests'[i].id = play_call'.id)
          /\ (\E i \in ActiveEntries :
                  g_active_requests[i].active /\ ~g_active_requests'[i].active)
                => PathEnded(play_call')]_vars
    /\ [](\A id \in RecordingIds :
             (Marking(id) = {} /\ TasksAt("queued", id) = 0)
                 => ActiveFor(id) = {})

\* A task whose connection was closing has released its id while the task
\* of another id is still queued.
C34_Witness ==
    /\ play_call.op = "task_closing"
    /\ ActiveFor(play_call.id) = {}
    /\ TasksAt("released", play_call.id) = 1
    /\ \E id \in RecordingIds : TasksAt("queued", id) = 1 /\ ActiveFor(id) # {}

\* C35: the copy of the HTTP message is freed exactly once on every path;
\* no step of the handler or of a task frees it a second time.
C35_MessageCopyFreedOnce == hm_frees <= 1 /\ ~aborted

\* The ids of the active entries.
ActiveIds ==
    {g_active_requests[i].id : i \in {j \in ActiveEntries : g_active_requests[j].active}}

TableFull == \A i \in ActiveEntries : g_active_requests[i].active

\* C36: at most MAX_ACTIVE_REQUESTS ids are active, each in one entry; a
\* request that reaches mark_request_active while every entry is active is
\* answered 503, starts no task and leaves the table unchanged; and a step
\* that makes an entry inactive makes inactive one entry, of the id the step
\* is about, and leaves every other entry as it was.
C36_TableCapacity ==
    /\ [](/\ Cardinality(ActiveIds) <= MAX_ACTIVE_REQUESTS
          /\ \A i, j \in ActiveEntries :
                (i # j /\ g_active_requests[i].active /\ g_active_requests[j].active)
                    => g_active_requests[i].id # g_active_requests[j].id)
    /\ [][/\ \A t \in Threads :
                (TableFull /\ play_local[t].pc = "checked"
                     /\ play_local'[t].pc # "checked")
                  => /\ play_call' = PlayCall("handle", play_local[t].id, 503, FALSE)
                     /\ g_active_requests' = g_active_requests
                     /\ play_tasks' = play_tasks
          /\ \A i \in ActiveEntries :
                (g_active_requests[i].active /\ ~g_active_requests'[i].active)
                  => /\ g_active_requests[i].id = play_call'.id
                     /\ \A j \in ActiveEntries \ {i} :
                            g_active_requests'[j] = g_active_requests[j]]_vars

\* A request for an id that is not active was answered 503 with every
\* entry of the table active.
C36_Witness ==
    /\ play_call.op = "handle" /\ play_call.status = 503
    /\ TableFull
    /\ play_call.id \notin ActiveIds

(* --------------------------------- C37 --------------------------------- *)

\* Every slot holds a writer, none of them under the name.
AllSlotsOfOtherStreams(name) ==
    \A i \in Slots :
        mp4_writers[i] # NULL /\ mp4_writer_stream_names[i] # name

\* C37: register_mp4_writer_for_stream returns -1 and leaves slots, names
\* and buffers unchanged when the name or the writer is null or when every
\* slot holds a writer of another stream; and whenever it returns 0 the
\* writer given is the one get_mp4_writer_for_stream returns for the name.
C37_RegisterContract ==
    [][last'.op = "register" =>
          /\ (last'.name = NullName \/ last'.writer = NULL
                  \/ AllSlotsOfOtherStreams(last'.name))
                => /\ last'.ret = -1
                   /\ UNCHANGED <<mp4_writers, mp4_writer_stream_names,
                                   frame_buffers>>
          /\ last'.ret = 0
                => GetWriter(mp4_writers', mp4_writer_stream_names', last'.name)
                       = last'.writer]_vars

(* --------------------------------- C40 --------------------------------- *)

\* The step was a call of update_stream_config, delete_stream_config or
\* delete_stream_config_internal with its arguments given, that met no
\* database failure, for a name that has no row.
MissingNameCall ==
    /\ db_call'.op \in {"update", "soft_delete", "hard_delete"}
    /\ ~db_call'.fault
    /\ db_call'.op = "update" => db_call'.stream # NoConfig
    /\ RowsNamed(streams, db_call'.name) = {}

\* C40: delete_stream_config, delete_stream_config_internal and
\* update_stream_config applied to a name that has no row return 0 and leave
\* the table unchanged.
C40_MissingNameIsSuccess ==
    [][MissingNameCall => (db_call'.ret = 0 /\ streams' = streams)]_vars

\* A permanent delete of a name that has no row returned 0 with another
\* stream's row in the table.
C40_Witness ==
    /\ db_call.op = "hard_delete" /\ ~db_call.fault
    /\ db_call.changed = 0 /\ db_call.ret = 0
    /\ streams # {}
    /\ RowsNamed(streams, db_call.name) = {}

\* C38: a manifest file that one request is serving is never truncated or
\* rewritten by another request: no request has a manifest path open for
\* writing while another request serves the same path.
C38_ServedManifestNotRewritten ==
    \A t \in Threads, u \in Threads :
        (t # u /\ tl_req.pc[t] = "serving" /\ tl_req.pc[u] = "writing")
            => tl_req.path[t] # tl_req.path[u]

\* The segment at index i (from 0) of the latest timeline playback call
\* contains the requested start, or starts after it.
PlayContains(i) ==
    /\ tl_play.segments[i + 1].start_time <= tl_play.start_time
    /\ tl_play.start_time <= tl_play.segments[i + 1].end_time

PlayStartsAfter(i) == tl_play.segments[i + 1].start_time > tl_play.start_time

PlayIndexes == 0 .. (Len(tl_play.segments) - 1)

\* C39: for a non-empty list of segments ordered by start time,
\* mg_handle_timeline_playback redirects (302) to the recording id of the
\* first segment that contains the requested start, else of the first that
\* starts after it, else of the first segment; the index is within the
\* list; an empty list yields 404 and no redirect.
C39_PlaybackSelectsSegment ==
    (tl_play.pc = "done" /\ tl_play.io = "ok") =>
        IF tl_play.segments = <<>>
        THEN tl_play.status = 404 /\ tl_play.index = -1
                 /\ tl_play.recording_id = 0
        ELSE LET i == tl_play.index
             IN  /\ tl_play.status = 302
                 /\ i \in PlayIndexes
                 /\ tl_play.recording_id = tl_play.segments[i + 1].id
                 /\ (\E j \in PlayIndexes : PlayContains(j)) =>
                        (PlayContains(i)
                             /\ \A j \in PlayIndexes : j < i => ~PlayContains(j))
                 /\ ((\A j \in PlayIndexes : ~PlayContains(j))
                         /\ \E j \in PlayIndexes : PlayStartsAfter(j)) =>
                        (PlayStartsAfter(i)
                             /\ \A j \in PlayIndexes : j < i => ~PlayStartsAfter(j))
                 /\ (\A j \in PlayIndexes :
                         ~PlayContains(j) /\ ~PlayStartsAfter(j)) => i = 0

\* A redirect to the second segment: the first one ended before the start
\* and contains it no more than the second, which starts after it.
C39_Witness ==
    /\ tl_play.pc = "done" /\ tl_play.io = "ok"
    /\ tl_play.status = 302
    /\ tl_play.index = 1
    /\ \A j \in PlayIndexes : ~PlayContains(j)
    /\ tl_play.recording_id = tl_play.segments[2].id

\* C31: segment rotation is keyframe-aligned with a hard ceiling: while the
\* worker is streaming and armed, a keyframe read at or after
\* segment_duration cuts the segment, a rotation cuts at such a keyframe or
\* at the ceiling of 2 x segment_duration, and no segment, open or closed,
\* spans more than 2 x segment_duration.
C31_KeyframeAlignedRotation ==
    /\ [](worker.elapsed <= 2 * worker.segment_duration
            /\ worker.span <= 2 * worker.segment_duration)
    /\ [][((worker.state = "Streaming" /\ worker.armed
                /\ worker'.event = "keyframe"
                /\ worker.elapsed >= worker.segment_duration)
              => (worker'.state = "Rotating" /\ worker'.span = worker.elapsed))
          /\ ((worker.state = "Streaming" /\ worker'.state = "Rotating")
              => (/\ worker.armed
                  /\ worker'.span = worker.elapsed
                  /\ \/ worker'.event = "keyframe"
                            /\ worker.elapsed >= worker.segment_duration
                     \/ worker'.event = "ceiling"
                            /\ worker.elapsed = 2 * worker.segment_duration))]_vars

\* A segment cut at a keyframe that came after segment_duration and before
\* the ceiling.
C31_Witness ==
    /\ worker.state = "Rotating"
    /\ worker.event = "keyframe"
    /\ worker.span > worker.segment_duration
    /\ worker.span < 2 * worker.segment_duration

\* A step by which the worker enters Backoff.
BackoffEntered ==
    worker'.event \in {"connect_failed", "source_closed"}

\* C32: the reconnect backoff is exponential with a cap and resets on
\* success: a failure waits the current interval and doubles it up to the
\* cap, no wait exceeds the cap, a frame read resets the interval to the
\* initial value, a worker leaves Backoff for Connecting when the wait has
\* expired or because it is disabled, and a worker in Backoff does leave it.
C32_BackoffExponentialCapped ==
    /\ [](worker.backoff \in BackoffInitial .. BackoffCap
            /\ worker.remaining \in 0 .. BackoffCap)
    /\ [][(BackoffEntered =>
               /\ worker'.state = "Backoff"
               /\ worker'.remaining = worker.backoff
               /\ worker'.backoff = Min({2 * worker.backoff, BackoffCap}))
          /\ (worker'.event \in {"frame", "keyframe"} =>
                  worker'.backoff = BackoffInitial)
          /\ ((worker.state = "Backoff" /\ worker'.state # "Backoff") =>
                  \/ worker'.state = "Connecting" /\ worker.remaining = 0
                  \/ worker'.state = "Stopping" /\ worker'.event = "disable")]_vars
    /\ ((worker.state = "Backoff") ~> (worker.state \in {"Connecting", "Stopping"}))

\* The third failure in a row: the worker waits the cap after it has waited
\* the initial interval and its double.
C32_Witness ==
    /\ worker.state = "Backoff"
    /\ worker.event = "connect_failed"
    /\ worker.remaining > 2 * BackoffInitial
    /\ worker.backoff = BackoffCap

====
